---- MODULE Spec2Model ----
(***************************************************************************)
(* A model of polybot, the 5-minute post-close sweep bot.                  *)
(*                                                                         *)
(* Three parts of the program are modelled, each with its own              *)
(* specification over the shared variables:                                *)
(*   SpecFeed  - rtds.rs, the RTDS price feed task and its two caches      *)
(*   SpecExec  - executor.rs, OrderExecutor::execute_batch                 *)
(*   Spec      - strategy.rs, ArbStrategy::sweep_stale_asks                *)
(*                                                                         *)
(* Number encoding.  The program computes with f64 and rust_decimal.  The  *)
(* model computes exactly, on decimal grids:                               *)
(*   prices   in mils            (1 = 0.001 USD)                           *)
(*   sizes    in thousandths     (1 = 0.001 share)                         *)
(*   costs    in size*price      (1 = 0.000001 USD)                        *)
(*   time     in seconds or milliseconds relative to EpochNote below       *)
(* f64 rounding error (an accumulated cost that is off by one ulp) is not  *)
(* represented.                                                            *)
(*                                                                         *)
(* EpochNote: instant 0 of the model is 2026-11-01T05:50:00Z, ten minutes  *)
(* before US Eastern daylight-saving time ends (06:00:00Z), so that the    *)
(* model's periods lie on both sides of the repeated local hour.           *)
(***************************************************************************)
EXTENDS Integers, Sequences, FiniteSets, TLC

VARIABLES
    \* ---- rtds.rs: the feed task and the shared caches
    latest_prices,      \* LatestPriceCache: symbol -> None | [value, ts]
    price_cache_5,      \* PriceCacheMulti: symbol -> (period_start -> value)
    feed_conn,          \* "connecting", "up" in the task's loop, "down" in the supervisor's sleep
    last_sample,        \* history: symbol -> None | the last sample handled
    first_seen,         \* history: symbol -> (aligned start -> first sample value seen in its 2 s window)
    \* ---- executor.rs: one execute_batch call
    ex_live,            \* ExecutorConfig.live
    ex_intents,         \* the intents argument
    ex_idx,             \* index of the intent the for loop is at (1-based)
    ex_results,         \* results
    ex_total_cost,      \* total_cost
    ex_misses,          \* consecutive_misses
    ex_pc,              \* "loop" | "sleep" | "done"
    ex_calls,           \* history: place_fok_buy calls made by execute_live
    \* ---- strategy.rs: one sweep_stale_asks call, orderbook_ws.rs: the mirror's map
    cfg,                \* the StrategyConfig fields the sweep reads
    sw_latest,          \* what latest_prices holds for the symbol when the sweep reads it
    sw_now_ms,          \* Utc::now().timestamp_millis() at entry
    sw_ptb,             \* price_to_beat argument
    books,              \* OrderbookMirror.books: token -> None | asks
    sw_pc,              \* position in sweep_stale_asks
    sw_skip,            \* which guard returned early ("" if none)
    sw_winner,          \* "" | "Up" | "Down"
    sw_token,           \* winning_token
    sw_timed_out,       \* sweep_start.elapsed() >= timeout
    total_orders,
    total_cost,
    consecutive_empty_passes,
    filled_any,
    orderbook,          \* the snapshot read for the current pass
    eligible_asks,      \* the filtered, sorted asks of the current pass
    ask_i,              \* index into eligible_asks of the for loop
    sw_pass,            \* number of the current pass
    sw_woken,           \* a notify_waiters() reached the sweep's wait_for_update
    sw_net_err,         \* history: a place_fok_buy call of this sweep returned Err
    sw_subs,            \* history: the place_fok_buy calls of this sweep
    \* ---- discovery.rs: calls of the period and slug functions
    pd_first,           \* None | the arguments and results of one call
    pd_second,          \* None | the arguments and results of another call
    \* ---- orderbook_ws.rs: OrderbookMirror (its books map is `books` above)
    mr_tasks,           \* the consumer tasks spawned by subscribe, in spawn order
    mr_active,          \* active_tasks: indices into mr_tasks
    mr_unsub_pc,        \* unsubscribe_all: "idle" | its caller (tasks aborted, map not yet cleared)
    mr_waiting,         \* per caller of wait_for_update: its position in the call
    mr_applied,         \* history: token -> the books of the last two updates applied for it
    \* ---- strategy.rs: run_symbol_loop of one symbol
    co_symbol,          \* symbol
    co_cfg,             \* config.strategy: sweep_enabled, simulation_mode
    co_pc,              \* position in run_symbol_loop
    co_skipped,         \* history: the periods the loop has skipped
    co_question_ptb,    \* history: the threshold get_5m_market parsed from the question
    co_now,             \* Utc::now().timestamp()
    co_round,           \* number of the loop iteration
    co_period,          \* period_5 of wait_for_5m_market_and_price
    co_cid,             \* m5_cid of wait_for_5m_market_and_price
    co_ptb,             \* price_to_beat of wait_for_5m_market_and_price
    co_data,            \* None | what wait_for_5m_market_and_price returned to this iteration
    co_poll_started     \* poll_until_5m_resolved: started

feed_vars  == <<latest_prices, price_cache_5, feed_conn, first_seen, last_sample>>
exec_vars  == <<ex_live, ex_intents, ex_idx, ex_results, ex_total_cost, ex_misses, ex_pc, ex_calls>>
sweep_vars == <<cfg, sw_latest, sw_now_ms, sw_ptb, books, sw_pc, sw_skip, sw_winner, sw_token,
                sw_timed_out, total_orders, total_cost, consecutive_empty_passes, filled_any,
                orderbook, eligible_asks, ask_i, sw_pass, sw_woken, sw_net_err, sw_subs>>
disc_vars  == <<pd_first, pd_second>>
mirror_vars == <<mr_tasks, mr_active, mr_unsub_pc, mr_waiting, mr_applied>>
coord_vars == <<co_symbol, co_cfg, co_pc, co_question_ptb, co_skipped, co_now, co_round, co_period, co_cid, co_ptb,
                co_data, co_poll_started>>
vars == <<feed_vars, exec_vars, sweep_vars, disc_vars, mirror_vars, coord_vars>>

\* What the actions of one part leave unchanged: the variables of the other parts
not_feed_vars  == <<exec_vars, sweep_vars, disc_vars, mirror_vars, coord_vars>>
not_exec_vars  == <<feed_vars, sweep_vars, disc_vars, mirror_vars, coord_vars>>
not_sweep_vars == <<feed_vars, exec_vars, disc_vars, mirror_vars, coord_vars>>
not_disc_vars  == <<feed_vars, exec_vars, sweep_vars, mirror_vars, coord_vars>>
\* The mirror writes books; the rest of the sweep's variables and the other parts
not_mirror_vars == <<cfg, sw_latest, sw_now_ms, sw_ptb, sw_pc, sw_skip, sw_winner, sw_token,
                     sw_timed_out, total_orders, total_cost, consecutive_empty_passes,
                     filled_any, orderbook, eligible_asks, ask_i, sw_pass, sw_woken,
                     sw_net_err, sw_subs, feed_vars, exec_vars, disc_vars, coord_vars>>

None == [none |-> TRUE]
Some(x) == [some |-> x]

Min(a, b) == IF a <= b THEN a ELSE b
Abs(a) == IF a < 0 THEN 0 - a ELSE a
\* Rust's integer division truncates toward zero.
TruncDiv(a, b) == IF a >= 0 THEN a \div b ELSE 0 - ((0 - a) \div b)

\* f64 specials, outside the range of every finite value of the model.
F64NaN == 0 - 2000000001
F64Inf == 2000000000 + 1
is_nan(x) == x = F64NaN
is_infinite(x) == x = F64Inf
\* IEEE comparisons: every comparison with NaN is false.
f64_lt(a, b) == ~is_nan(a) /\ ~is_nan(b) /\ a < b
f64_le(a, b) == ~is_nan(a) /\ ~is_nan(b) /\ a <= b
f64_gt(a, b) == f64_lt(b, a)
f64_ge(a, b) == f64_le(b, a)

-----------------------------------------------------------------------------
(* discovery.rs *)

MARKET_5M_DURATION_SECS == 5 * 60

\* The instant (model seconds) at which America/New_York falls back from
\* EDT (UTC-4) to EST (UTC-5): 2026-11-01T06:00:00Z.
FallBackAt == 10 * 60

EtOffset(ts_sec) == IF ts_sec < FallBackAt THEN 0 - 4 * 3600 ELSE 0 - 5 * 3600

\* et.from_local_datetime(naive).single().or_else(earliest): a local time of the
\* repeated hour is ambiguous, and `earliest` resolves it to its EDT instant.
LocalToUnixEarliest(naive) ==
    IF naive < FallBackAt - 4 * 3600 THEN naive + 4 * 3600 ELSE naive + 5 * 3600

\* chrono::Utc.timestamp_opt(ts_sec, 0).single() is Some: the instant is one
\* chrono can represent.  Its last one (year 262142) is far beyond the model's
\* integers; model instants from ChronoEnd on stand for the instants after it.
ChronoEnd == 6000000 * MARKET_5M_DURATION_SECS
timestamp_opt_is_single(ts_sec) == ts_sec < ChronoEnd

\* Fault variant of period_start_et_unix_for_timestamp: the seconds are cut
\* off, the minute is not floored
PeriodStartMinuteNotFloored(ts_sec, minutes) ==
    IF ~timestamp_opt_is_single(ts_sec) THEN ts_sec
    ELSE LET local == ts_sec + EtOffset(ts_sec)
             truncated_naive == (local \div 60) * 60
         IN  LocalToUnixEarliest(truncated_naive)

period_start_et_unix_for_timestamp(ts_sec, minutes) ==
    IF ~timestamp_opt_is_single(ts_sec) THEN ts_sec
    ELSE LET local == ts_sec + EtOffset(ts_sec)
             secs  == minutes * 60
             truncated_naive == (local \div secs) * secs
         IN  LocalToUnixEarliest(truncated_naive)

\* str::to_lowercase on the symbols of the model
to_lowercase(s) ==
    CASE s = "BTC" -> "btc"
      [] s = "Eth" -> "eth"
      [] OTHER     -> s

\* format!("{}-updown-5m-{}", symbol.to_lowercase(), period_start_unix)
build_5m_slug(symbol, period_start_unix) ==
    <<to_lowercase(symbol), "-updown-5m-", period_start_unix>>

\* Bound: the 5-minute windows 0..MaxDiscPeriod the calls' timestamps come from.
\* Windows 0 and 1 lie before the fall-back, 2.. in the repeated hour; window
\* 14 is the first after the repeated hour.
MaxDiscPeriod == 3
DiscPeriods == (0..MaxDiscPeriod) \cup {(FallBackAt + 3600) \div MARKET_5M_DURATION_SECS}
DiscOffsets == {0, 1, MARKET_5M_DURATION_SECS - 1}
DiscTs == {p * MARKET_5M_DURATION_SECS + o : p \in DiscPeriods, o \in DiscOffsets}
          \cup {ChronoEnd + o : o \in DiscOffsets}
DiscSymbols == {"btc", "BTC"}

\* One evaluation: the period of ts_sec, the period of that period, the slug
DiscCall(ts_sec, symbol) ==
    LET p == period_start_et_unix_for_timestamp(ts_sec, 5)
    IN  [ts |-> ts_sec, symbol |-> symbol, period_start |-> p,
         again |-> period_start_et_unix_for_timestamp(p, 5),
         slug |-> build_5m_slug(symbol, p)]

DiscIdle == pd_first = None /\ pd_second = None

DiscInit == pd_first = None /\ pd_second = None

DiscFirst ==
    /\ \E ts \in DiscTs, sym \in DiscSymbols : pd_first' = DiscCall(ts, sym)
    /\ UNCHANGED <<pd_second, not_disc_vars>>

DiscSecond ==
    /\ \E ts \in DiscTs, sym \in DiscSymbols : pd_second' = DiscCall(ts, sym)
    /\ UNCHANGED <<pd_first, not_disc_vars>>

DiscNext == DiscFirst \/ DiscSecond

-----------------------------------------------------------------------------
(* rtds.rs *)

FEED_TS_CAPTURE_WINDOW_SECS == 2

\* config.strategy.symbols, lower-cased into symbol_set
symbol_set == {"btc", "eth"}

\* payload.symbol values the feed may carry
PayloadSymbols == {"btc/usd", "ETH/USD", "doge/usd"}

payload_symbol_to_key(s) ==
    CASE s = "btc/usd"  -> "btc"
      [] s = "ETH/USD"  -> "eth"
      [] s = "doge/usd" -> "doge"
      [] OTHER          -> s

\* Bounds of the feed's inputs.
MaxPeriod == 1
FeedOffsetsMs == {0, 1999, 2000}
FeedTsMs == {p * MARKET_5M_DURATION_SECS * 1000 + o : p \in 0..MaxPeriod, o \in FeedOffsetsMs}
FeedValues == {100000, 100100}

Put(f, k, v) == [x \in DOMAIN f \cup {k} |-> IF x = k THEN v ELSE f[x]]

\* The 5-minute window an instant lies in, by plain arithmetic on the instant.
AlignedStart(ts_sec) == (ts_sec \div MARKET_5M_DURATION_SECS) * MARKET_5M_DURATION_SECS

\* Fault variant of Capture: the insert without the contains_key test
CaptureBuggyOverwrite(cache, key, value, ts_ms) ==
    LET ts_sec == TruncDiv(ts_ms, 1000)
        period_5 == period_start_et_unix_for_timestamp(ts_sec, 5)
        in_capture_5 == ts_sec >= period_5 /\ ts_sec < period_5 + FEED_TS_CAPTURE_WINDOW_SECS
    IN  IF in_capture_5
        THEN [cache EXCEPT ![key] = Put(cache[key], period_5, value)]
        ELSE cache

\* price_cache_5 after one sample (rtds.rs 140-150)
Capture(cache, key, value, ts_ms) ==
    LET ts_sec == TruncDiv(ts_ms, 1000)
        period_5 == period_start_et_unix_for_timestamp(ts_sec, 5)
        in_capture_5 == ts_sec >= period_5 /\ ts_sec < period_5 + FEED_TS_CAPTURE_WINDOW_SECS
    IN  IF in_capture_5 /\ period_5 \notin DOMAIN cache[key]
        THEN [cache EXCEPT ![key] = Put(cache[key], period_5, value)]
        ELSE cache

\* first_seen after one sample: history only, not program state
NoteFirst(seen, key, value, ts_ms) ==
    LET ts_sec == TruncDiv(ts_ms, 1000)
        p == AlignedStart(ts_sec)
    IN  IF ts_sec < p + 2 /\ p \notin DOMAIN seen[key]
        THEN [seen EXCEPT ![key] = Put(seen[key], p, value)]
        ELSE seen

EmptyMap == [x \in {} |-> 0]

FeedIdle ==
    /\ latest_prices = [s \in symbol_set |-> None]
    /\ price_cache_5 = [s \in symbol_set |-> EmptyMap]
    /\ feed_conn = "down"
    /\ first_seen = [s \in symbol_set |-> EmptyMap]
    /\ last_sample = [s \in symbol_set |-> None]

FeedInit ==
    /\ latest_prices = [s \in symbol_set |-> None]
    /\ price_cache_5 = [s \in symbol_set |-> EmptyMap]
    /\ feed_conn = "up"
    /\ first_seen = [s \in symbol_set |-> EmptyMap]
    /\ last_sample = [s \in symbol_set |-> None]

\* Fault variant of insert_latest: an entry with a later timestamp is kept
InsertLatestIfNewer(map, key, value, ts) ==
    IF map[key] # None /\ map[key].ts > ts THEN map
    ELSE [map EXCEPT ![key] = [value |-> value, ts |-> ts]]

\* latest_prices.write().await.insert(key, (p.value, p.timestamp)) (rtds.rs 137-138)
insert_latest(map, key, value, ts) ==
    [map EXCEPT ![key] = [value |-> value, ts |-> ts]]

\* A Text message of topic crypto_prices_chainlink with a payload (rtds.rs 129-151)
FeedSampleAt(sym, value, ts) ==
    LET key == payload_symbol_to_key(sym) IN
    /\ key \in symbol_set
    /\ latest_prices' = insert_latest(latest_prices, key, value, ts)
    /\ last_sample' = [last_sample EXCEPT ![key] = [value |-> value, ts |-> ts]]
    /\ price_cache_5' = Capture(price_cache_5, key, value, ts)
    /\ first_seen' = NoteFirst(first_seen, key, value, ts)

FeedSample ==
    /\ feed_conn = "up"
    /\ \E sym \in PayloadSymbols, value \in FeedValues, ts \in FeedTsMs :
        FeedSampleAt(sym, value, ts)
    /\ UNCHANGED <<feed_conn, not_feed_vars>>

\* A sample of a symbol outside symbol_set: `continue` (rtds.rs 133-136)
FeedUntracked ==
    /\ feed_conn = "up"
    /\ \E sym \in PayloadSymbols : payload_symbol_to_key(sym) \notin symbol_set
    /\ UNCHANGED vars

\* Stream error, Close frame or failed ping: the task returns Err or Ok and
\* the supervisor goes to sleep (rtds.rs 127, 158, 163; chainlink.rs 31-34)
FeedDisconnect ==
    /\ feed_conn = "up"
    /\ feed_conn' = "down"
    /\ UNCHANGED <<latest_prices, price_cache_5, first_seen, last_sample, not_feed_vars>>

\* Fault variant of FeedReconnect: each connection starts with fresh caches
FeedReconnectFreshCaches ==
    /\ feed_conn = "down"
    /\ feed_conn' = "connecting"
    /\ latest_prices' = [s \in symbol_set |-> None]
    /\ price_cache_5' = [s \in symbol_set |-> EmptyMap]
    /\ UNCHANGED <<first_seen, last_sample, not_feed_vars>>

\* The supervisor's sleep of 5 s is over and its loop calls the task again with
\* clones of the same two Arcs (chainlink.rs 23-35)
FeedReconnect ==
    /\ feed_conn = "down"
    /\ feed_conn' = "connecting"
    /\ UNCHANGED <<latest_prices, price_cache_5, first_seen, last_sample, not_feed_vars>>

\* connect_async and the subscribe message succeed (rtds.rs 99-122)
FeedConnected ==
    /\ feed_conn = "connecting"
    /\ feed_conn' = "up"
    /\ UNCHANGED <<latest_prices, price_cache_5, first_seen, last_sample, not_feed_vars>>

\* connect_async or the subscribe message fails: `?` returns Err (rtds.rs 99, 115-118)
FeedConnectFailed ==
    /\ feed_conn = "connecting"
    /\ feed_conn' = "down"
    /\ UNCHANGED <<latest_prices, price_cache_5, first_seen, last_sample, not_feed_vars>>

FeedNext ==
    \/ FeedSample \/ FeedUntracked \/ FeedDisconnect \/ FeedReconnect
    \/ FeedConnected \/ FeedConnectFailed

-----------------------------------------------------------------------------
(* executor.rs *)

\* ExecutorConfig::default(), in the model's units
max_batch_cost == 500000000
max_price == 999
min_size == 10
max_consecutive_misses == 3

\* Bound: the longest intents list
MaxIntents == 3

Intent(tok, side, price, size, ot) ==
    [token_id |-> tok, side |-> side, price |-> price, size |-> size, order_type |-> ot]

\* The intents a batch is drawn from: orders that fit, orders that exhaust the
\* budget, and one intent for each rule of validate.
IntentPool ==
    { Intent("tok", "Buy", 500, 600000, "FOK"),     \* 600 shares at 0.500: 300 USD
      Intent("tok", "Buy", 999, 1000000, "FOK"),    \* 1000 shares at 0.999: over budget
      Intent("tok", "Buy", 990, 10000, "FOK"),      \* 10 shares at 0.990
      Intent("tok", "Buy", 700, 1000000, "FOK"),    \* 500 / 0.700 is no whole number of lots
      Intent("tok", "Buy", 1000, 10000, "FOK"),     \* price above max_price
      Intent("tok", "Buy", F64NaN, 10000, "FOK"),   \* price NaN
      Intent("tok", "Buy", 500, 5, "FOK"),          \* size 0.005 below min_size
      Intent("", "Buy", 500, 10000, "FOK"),         \* empty token_id
      Intent("tok", "Sell", 500, 10000, "FOK"),
      Intent("tok", "Buy", 500, 10000, "GTC") }

RECURSIVE SeqsUpTo(_, _)
SeqsUpTo(S, n) ==
    IF n = 0 THEN {<<>>}
    ELSE LET shorter == SeqsUpTo(S, n - 1)
         IN  shorter \cup {Append(q, x) : q \in {r \in shorter : Len(r) = n - 1}, x \in S}

\* What place_fok_buy returns (api.rs 211-260): Ok(Some), Ok(None), an Err whose
\* text names a network failure, an Err of an earlier step (client, parse, sign).
ApiResults == {"filled", "unfillable", "err_network", "err_other"}

\* Fault variant of floor_2dp: round to the nearest 0.01
Round2dpNearest(size) == ((size + 5) \div 10) * 10

\* (x * 100.0).floor() / 100.0 on a size in thousandths
floor_2dp(size) == (size \div 10) * 10

\* Fault variant of validate: the side is not checked
ValidateAnySide(intent, current_cost) ==
    \/ f64_le(intent.price, 0) \/ is_nan(intent.price) \/ is_infinite(intent.price)
    \/ f64_le(intent.size, 0) \/ is_nan(intent.size) \/ is_infinite(intent.size)
    \/ intent.price > max_price
    \/ intent.size < min_size
    \/ current_cost >= max_batch_cost
    \/ intent.token_id = ""
    \/ intent.order_type # "FOK"

\* validate (executor.rs 245-272): TRUE when the intent is rejected
validate(intent, current_cost) ==
    \/ f64_le(intent.price, 0) \/ is_nan(intent.price) \/ is_infinite(intent.price)
    \/ f64_le(intent.size, 0) \/ is_nan(intent.size) \/ is_infinite(intent.size)
    \/ intent.price > max_price
    \/ intent.size < min_size
    \/ current_cost >= max_batch_cost
    \/ intent.token_id = ""
    \/ intent.side # "Buy"
    \/ intent.order_type # "FOK"

\* Fault variant of actual_size: the intent's size, not capped by the budget
UncappedSize(intent, cost) == floor_2dp(intent.size)

\* The size cap (executor.rs 154-161)
actual_size(intent, cost) ==
    LET remaining_budget == max_batch_cost - cost
        affordable_size == IF intent.price > 0 THEN remaining_budget \div intent.price ELSE 0
    IN  floor_2dp(Min(intent.size, affordable_size))

Result(i, intent, status, size, price) ==
    [idx |-> i, intent |-> intent, status |-> status, filled_size |-> size, filled_price |-> price]

\* execute_live's classification (executor.rs 279-307)
execute_live(i, intent, size, resp) ==
    CASE resp = "filled"      -> Result(i, intent, "Filled", size, intent.price)
      [] resp = "unfillable"  -> Result(i, intent, "NotFillable", 0, 0)
      [] resp = "err_network" -> Result(i, intent, "NetworkError", 0, 0)
      [] OTHER                -> Result(i, intent, "Rejected", 0, 0)

\* Fault variant of execute_paper: filled at the intent's own size
ExecutePaperFullSize(i, intent, size) == Result(i, intent, "Filled", intent.size, intent.price)

\* execute_paper (executor.rs 311-327)
execute_paper(i, intent, size) == Result(i, intent, "Filled", size, intent.price)

ExecIdle ==
    /\ ex_live = FALSE
    /\ ex_intents = <<>>
    /\ ex_idx = 1
    /\ ex_results = <<>>
    /\ ex_total_cost = 0
    /\ ex_misses = 0
    /\ ex_pc = "done"
    /\ ex_calls = <<>>

ExecInit ==
    /\ ex_live \in BOOLEAN
    /\ ex_intents \in SeqsUpTo(IntentPool, MaxIntents)
    /\ ex_idx = 1
    /\ ex_results = <<>>
    /\ ex_total_cost = 0
    /\ ex_misses = 0
    /\ ex_pc = "loop"
    /\ ex_calls = <<>>

ExecCur == ex_intents[ex_idx]

\* Fault variant of ExecReject: `continue` without a result pushed
ExecRejectNoResult ==
    /\ ex_pc = "loop" /\ ex_idx <= Len(ex_intents)
    /\ validate(ExecCur, ex_total_cost)
    /\ ex_idx' = ex_idx + 1
    /\ UNCHANGED <<ex_live, ex_intents, ex_results, ex_total_cost, ex_misses, ex_pc, ex_calls,
                   not_exec_vars>>

\* Pre-flight rejection: push Rejected, continue (executor.rs 141-151)
ExecReject ==
    /\ ex_pc = "loop" /\ ex_idx <= Len(ex_intents)
    /\ validate(ExecCur, ex_total_cost)
    /\ ex_results' = Append(ex_results, Result(ex_idx, ExecCur, "Rejected", 0, 0))
    /\ ex_idx' = ex_idx + 1
    /\ UNCHANGED <<ex_live, ex_intents, ex_total_cost, ex_misses, ex_pc, ex_calls,
                   not_exec_vars>>

\* Capped size below min_size: push Rejected, continue (executor.rs 163-173)
ExecSkipCapped ==
    /\ ex_pc = "loop" /\ ex_idx <= Len(ex_intents)
    /\ ~validate(ExecCur, ex_total_cost)
    /\ actual_size(ExecCur, ex_total_cost) < min_size
    /\ ex_results' = Append(ex_results, Result(ex_idx, ExecCur, "Rejected", 0, 0))
    /\ ex_idx' = ex_idx + 1
    /\ UNCHANGED <<ex_live, ex_intents, ex_total_cost, ex_misses, ex_pc, ex_calls,
                   not_exec_vars>>

\* Fault variant of classify: a Rejected result counts as a miss
ClassifyRejectedAsMiss(result, cost, misses) ==
    CASE result.status = "Filled" ->
            [total_cost |-> cost + result.filled_size * result.filled_price,
             consecutive_misses |-> 0]
      [] result.status \in {"NotFillable", "Rejected"} ->
            [total_cost |-> cost, consecutive_misses |-> misses + 1]
      [] OTHER ->
            [total_cost |-> cost, consecutive_misses |-> misses]

\* match result.status: the two counters after the result (executor.rs 182-215)
classify(result, cost, misses) ==
    CASE result.status = "Filled" ->
            [total_cost |-> cost + result.filled_size * result.filled_price,
             consecutive_misses |-> 0]
      [] result.status = "NotFillable" ->
            [total_cost |-> cost, consecutive_misses |-> misses + 1]
      [] OTHER ->
            [total_cost |-> cost, consecutive_misses |-> misses]

\* Fault variant of post_order_stop: the misses are not looked at
StopOnBudgetOnly(cost, misses) == cost >= max_batch_cost

\* The post-order checks (executor.rs 219-227): TRUE when the loop breaks
post_order_stop(cost, misses) ==
    cost >= max_batch_cost \/ misses >= max_consecutive_misses

\* Fault variant of post_order: NetworkError does not break
PostOrderNoHalt(status, cost, misses) ==
    CASE cost >= max_batch_cost -> "done"
      [] misses >= max_consecutive_misses -> "done"
      [] OTHER -> "sleep"

\* Where the loop goes after a result was classified (executor.rs 204-230):
\* break on NetworkError, on an exhausted budget, on too many misses; else sleep
post_order(status, cost, misses) ==
    CASE status = "NetworkError" -> "done"
      [] post_order_stop(cost, misses) -> "done"
      [] OTHER -> "sleep"

\* Execute, classify, push, post-order checks (executor.rs 175-227)
ExecSubmit ==
    /\ ex_pc = "loop" /\ ex_idx <= Len(ex_intents)
    /\ ~validate(ExecCur, ex_total_cost)
    /\ LET size == actual_size(ExecCur, ex_total_cost) IN
       /\ size >= min_size
       /\ \E resp \in ApiResults :
          LET result == IF ex_live THEN execute_live(ex_idx, ExecCur, size, resp)
                        ELSE execute_paper(ex_idx, ExecCur, size)
              c == classify(result, ex_total_cost, ex_misses)
              cost == c.total_cost
              misses == c.consecutive_misses
          IN
          /\ ~ex_live => resp = "filled"
          /\ ex_calls' = IF ex_live
                         THEN Append(ex_calls, [token_id |-> ExecCur.token_id, size |-> size,
                                                price |-> ExecCur.price, idx |-> ex_idx])
                         ELSE ex_calls
          /\ ex_results' = Append(ex_results, result)
          /\ ex_total_cost' = cost
          /\ ex_misses' = misses
          /\ ex_idx' = ex_idx + 1
          /\ ex_pc' = post_order(result.status, cost, misses)
    /\ UNCHANGED <<ex_live, ex_intents, not_exec_vars>>

\* sleep(inter_order_delay) returns (executor.rs 230)
ExecSleep ==
    /\ ex_pc = "sleep"
    /\ ex_pc' = "loop"
    /\ UNCHANGED <<ex_live, ex_intents, ex_idx, ex_results, ex_total_cost, ex_misses, ex_calls,
                   not_exec_vars>>

\* The for loop is out of intents: return results (executor.rs 122-124, 233-241)
ExecReturn ==
    /\ ex_pc = "loop" /\ ex_idx > Len(ex_intents)
    /\ ex_pc' = "done"
    /\ UNCHANGED <<ex_live, ex_intents, ex_idx, ex_results, ex_total_cost, ex_misses, ex_calls,
                   not_exec_vars>>

ExecNext == ExecReject \/ ExecSkipCapped \/ ExecSubmit \/ ExecSleep \/ ExecReturn

-----------------------------------------------------------------------------
(* strategy.rs: sweep_stale_asks, with the mirror's map of orderbook_ws.rs *)

\* StrategyConfig defaults (config.rs), in the model's units
sweep_max_price == 999
sweep_min_price == 10
sweep_timeout_secs == 30
max_sweep_cost == 500000000

\* sweep_min_margin_pct values, in units of 0.0001 (the default is 1)
MarginPcts == {0, 1}

m5_up == "up_token"
m5_down == "down_token"
Tokens == {m5_up, m5_down}

\* Bound: the sweep's timeout has elapsed by the time this many orders were sent
MaxSubmits == 2

Ask(price, size) == [price |-> price, size |-> size]
Book(asks) == [bids |-> <<>>, asks |-> asks]

\* The order books the stream or the REST fallback may deliver
BookPool ==
    { Book(<<Ask(500, 5000), Ask(1000, 10000), Ask(999, 10000), Ask(9, 10000), Ask(800, 5)>>),
      Book(<<Ask(600, 500000), Ask(500, 600000)>>),     \* two levels of 300 USD
      Book(<<Ask(10, 1000000), Ask(700, 1000000)>>),    \* 500 / 0.700 is no whole number of lots
      Book(<<>>) }

\* What place_fok_buy returns to the sweep: Ok(Some), Ok(None), Err
SweepApiResults == {"filled", "unfillable", "err"}

\* What the sweep finds in latest_prices, with now = SweepNowMs
SweepNowMs == 400 * 1000
LatestValues == {100000, 100009, 100010, 99990, 0, F64NaN}
LatestAgesMs == {30999, 31000}
PtbValues == {100000, 0}

\* Fault variant of insane: only non-finite prices fail
InsaneOnlyNonFinite(p) == is_nan(p) \/ is_infinite(p)

\* Sanity check of a price (strategy.rs 140-141, 146-147): TRUE when it fails
insane(p) ==
    \/ is_nan(p) \/ is_infinite(p) \/ f64_le(p, 0)
    \/ f64_lt(p, 1) \/ f64_gt(p, 1000000000)

\* Fault variant of is_tie: the guard left out
NoTieGuard(diff) == FALSE

\* Guard: zero diff (strategy.rs 170)
is_tie(diff) == diff = 0

\* Fault variant of below_margin: <= for <
BelowMarginInclusive(diff, price_to_beat, pct) == Abs(diff) * 10000 <= pct * price_to_beat

\* Minimum margin (strategy.rs 176-177); pct is in units of 0.0001
below_margin(diff, price_to_beat, pct) == Abs(diff) * 10000 < pct * price_to_beat

\* Fault variant of winner_of: the two tokens swapped
WinnerSwappedToken(diff) ==
    IF diff > 0 THEN [winner |-> "Up", token |-> m5_down]
    ELSE [winner |-> "Down", token |-> m5_up]

\* Winner and winning token (strategy.rs 186-190)
winner_of(diff) ==
    IF diff > 0 THEN [winner |-> "Up", token |-> m5_up]
    ELSE [winner |-> "Down", token |-> m5_down]

\* Fault variant of skip_reason: the simulation_mode return left out
SkipReasonNoSimulation(latest, price_to_beat, now_ms, c) ==
    IF latest = None THEN "no_price"
    ELSE LET latest_price == latest.value
             age_secs == TruncDiv(now_ms - latest.ts, 1000)
             diff == latest_price - price_to_beat
         IN  CASE insane(latest_price) -> "sanity_latest"
               [] insane(price_to_beat) -> "sanity_ptb"
               [] age_secs > sweep_timeout_secs -> "stale"
               [] is_tie(diff) -> "tie"
               [] below_margin(diff, price_to_beat, c.sweep_min_margin_pct) -> "margin"
               [] OTHER -> ""

\* Fault variant of skip_reason: the staleness guard left out
SkipReasonNoStaleness(latest, price_to_beat, now_ms, c) ==
    IF latest = None THEN "no_price"
    ELSE LET latest_price == latest.value
             diff == latest_price - price_to_beat
         IN  CASE insane(latest_price) -> "sanity_latest"
               [] insane(price_to_beat) -> "sanity_ptb"
               [] is_tie(diff) -> "tie"
               [] below_margin(diff, price_to_beat, c.sweep_min_margin_pct) -> "margin"
               [] c.simulation_mode -> "simulation"
               [] OTHER -> ""

\* The guards of sweep_stale_asks in order (strategy.rs 122-203): the reason of
\* the early return, or "" when the sweep loop is entered
skip_reason(latest, price_to_beat, now_ms, c) ==
    IF latest = None THEN "no_price"
    ELSE LET latest_price == latest.value
             age_secs == TruncDiv(now_ms - latest.ts, 1000)
             diff == latest_price - price_to_beat
         IN  CASE insane(latest_price) -> "sanity_latest"
               [] insane(price_to_beat) -> "sanity_ptb"
               [] age_secs > sweep_timeout_secs -> "stale"
               [] is_tie(diff) -> "tie"
               [] below_margin(diff, price_to_beat, c.sweep_min_margin_pct) -> "margin"
               [] c.simulation_mode -> "simulation"
               [] OTHER -> ""

in_range(a) == a.price >= sweep_min_price /\ a.price <= sweep_max_price

\* Vec::sort_by(|a, b| b.price.cmp(&a.price)): stable, most expensive first
RECURSIVE InsertDesc(_, _)
InsertDesc(sorted, x) ==
    IF sorted = <<>> THEN <<x>>
    ELSE IF Head(sorted).price >= x.price
         THEN <<Head(sorted)>> \o InsertDesc(Tail(sorted), x)
         ELSE <<x>> \o sorted

RECURSIVE SortDesc(_)
SortDesc(q) ==
    IF q = <<>> THEN <<>>
    ELSE InsertDesc(SortDesc(SubSeq(q, 1, Len(q) - 1)), q[Len(q)])

\* Fault variant of eligible: the filter without the sort
EligibleUnsorted(asks) == SelectSeq(asks, in_range)

\* eligible_asks of a snapshot (strategy.rs 236-244)
eligible(asks) == SortDesc(SelectSeq(asks, in_range))

\* Fault variant of order_size: the size not rounded down to the lot size
OrderSizeNoFloor(ask, cost) ==
    LET remaining_budget == max_sweep_cost - cost
        max_affordable == IF ask.price > 0 THEN remaining_budget \div ask.price ELSE 0
    IN  Min(ask.size, max_affordable)

\* Fault variant of order_size: the ask's size, not capped by the budget
OrderSizeUncapped(ask, cost) == floor_2dp(ask.size)

\* Dynamic sizing (strategy.rs 273-281)
order_size(ask, cost) ==
    LET remaining_budget == max_sweep_cost - cost
        max_affordable == IF ask.price > 0 THEN remaining_budget \div ask.price ELSE 0
    IN  floor_2dp(Min(ask.size, max_affordable))

\* sweep_start.elapsed() >= timeout
Elapsed == sw_timed_out \/ Len(sw_subs) >= MaxSubmits

SweepIdle ==
    /\ cfg = [sweep_min_margin_pct |-> 1, simulation_mode |-> FALSE]
    /\ sw_latest = None
    /\ sw_now_ms = SweepNowMs
    /\ sw_ptb = 0
    /\ books = [t \in Tokens |-> None]
    /\ sw_pc = "done"
    /\ sw_skip = ""
    /\ sw_winner = ""
    /\ sw_token = ""
    /\ sw_timed_out = FALSE
    /\ total_orders = 0
    /\ total_cost = 0
    /\ consecutive_empty_passes = 0
    /\ filled_any = FALSE
    /\ orderbook = None
    /\ eligible_asks = <<>>
    /\ ask_i = 1
    /\ sw_pass = 0
    /\ sw_woken = FALSE
    /\ sw_net_err = FALSE
    /\ sw_subs = <<>>

SweepInit ==
    /\ cfg \in [sweep_min_margin_pct : MarginPcts, simulation_mode : BOOLEAN]
    /\ sw_latest \in {None} \cup [value : LatestValues, ts : {SweepNowMs - a : a \in LatestAgesMs}]
    /\ sw_now_ms = SweepNowMs
    /\ sw_ptb \in PtbValues
    /\ books \in [Tokens -> {None} \cup BookPool]
    /\ sw_pc = "start"
    /\ sw_skip = ""
    /\ sw_winner = ""
    /\ sw_token = ""
    /\ sw_timed_out = FALSE
    /\ total_orders = 0
    /\ total_cost = 0
    /\ consecutive_empty_passes = 0
    /\ filled_any = FALSE
    /\ orderbook = None
    /\ eligible_asks = <<>>
    /\ ask_i = 1
    /\ sw_pass = 0
    /\ sw_woken = FALSE
    /\ sw_net_err = FALSE
    /\ sw_subs = <<>>

\* Fault variant of BookUpdate: the update is applied without notify_waiters()
BookUpdateNoNotify ==
    /\ sw_pc # "done"
    /\ \E t \in Tokens, b \in BookPool : books' = [books EXCEPT ![t] = b]
    /\ UNCHANGED <<cfg, sw_latest, sw_now_ms, sw_ptb, sw_pc, sw_skip, sw_winner, sw_token,
                   sw_timed_out, total_orders, total_cost, consecutive_empty_passes, filled_any,
                   orderbook, eligible_asks, ask_i, sw_pass, sw_woken, sw_net_err, sw_subs,
                   not_sweep_vars>>

\* The mirror's consumer task applies one book update and notifies
\* (orderbook_ws.rs 79-120)
BookUpdate ==
    /\ sw_pc # "done"
    /\ \E t \in Tokens, b \in BookPool : books' = [books EXCEPT ![t] = b]
    /\ sw_woken' = (sw_woken \/ sw_pc = "wait")
    /\ UNCHANGED <<cfg, sw_latest, sw_now_ms, sw_ptb, sw_pc, sw_skip, sw_winner, sw_token,
                   sw_timed_out, total_orders, total_cost, consecutive_empty_passes, filled_any,
                   orderbook, eligible_asks, ask_i, sw_pass, sw_net_err, sw_subs,
                   not_sweep_vars>>

\* The sweep's clock passes its timeout
SweepTimeout ==
    /\ sw_pc \notin {"start", "done"}
    /\ ~sw_timed_out
    /\ sw_timed_out' = TRUE
    /\ UNCHANGED <<cfg, sw_latest, sw_now_ms, sw_ptb, books, sw_pc, sw_skip, sw_winner, sw_token,
                   total_orders, total_cost, consecutive_empty_passes, filled_any,
                   orderbook, eligible_asks, ask_i, sw_pass, sw_woken, sw_net_err, sw_subs,
                   not_sweep_vars>>

\* Entry, guards and winner (strategy.rs 118-211)
SweepDetermine ==
    /\ sw_pc = "start"
    /\ LET r == skip_reason(sw_latest, sw_ptb, sw_now_ms, cfg) IN
       /\ sw_skip' = r
       /\ IF r \in {"no_price", "sanity_latest", "sanity_ptb", "stale", "tie", "margin"}
          THEN /\ sw_pc' = "done"
               /\ UNCHANGED <<sw_winner, sw_token>>
          ELSE LET w == winner_of(sw_latest.value - sw_ptb) IN
               /\ sw_winner' = w.winner
               /\ sw_token' = w.token
               /\ sw_pc' = IF r = "simulation" THEN "done" ELSE "while"
    /\ UNCHANGED <<cfg, sw_latest, sw_now_ms, sw_ptb, books, sw_timed_out, total_orders,
                   total_cost, consecutive_empty_passes, filled_any, orderbook, eligible_asks,
                   ask_i, sw_pass, sw_woken, sw_net_err, sw_subs, not_sweep_vars>>

\* The while condition and the cost cap end the sweep (strategy.rs 213-218)
SweepWhileExit ==
    /\ sw_pc = "while"
    /\ Elapsed \/ total_cost >= max_sweep_cost
    /\ sw_pc' = "done"
    /\ UNCHANGED <<cfg, sw_latest, sw_now_ms, sw_ptb, books, sw_skip, sw_winner, sw_token,
                   sw_timed_out, total_orders, total_cost, consecutive_empty_passes, filled_any,
                   orderbook, eligible_asks, ask_i, sw_pass, sw_woken, sw_net_err, sw_subs,
                   not_sweep_vars>>

\* The rest of a pass's head once a snapshot ob was read (strategy.rs 236-257)
PassHead(ob) ==
    LET e == eligible(ob.asks) IN
    /\ orderbook' = ob
    /\ eligible_asks' = e
    /\ sw_pass' = sw_pass + 1
    /\ ask_i' = 1
    /\ sw_woken' = FALSE
    /\ IF e = <<>>
       THEN /\ consecutive_empty_passes' = consecutive_empty_passes + 1
            /\ sw_pc' = IF consecutive_empty_passes + 1 >= 3 THEN "done" ELSE "wait"
            /\ UNCHANGED filled_any
       ELSE /\ filled_any' = FALSE
            /\ sw_pc' = "for"
            /\ UNCHANGED consecutive_empty_passes

\* A pass starts from the mirror's snapshot (strategy.rs 221-222)
SweepReadMirror ==
    /\ sw_pc = "while"
    /\ ~(Elapsed \/ total_cost >= max_sweep_cost)
    /\ books[sw_token] # None
    /\ PassHead(books[sw_token])
    /\ UNCHANGED <<cfg, sw_latest, sw_now_ms, sw_ptb, books, sw_skip, sw_winner, sw_token,
                   sw_timed_out, total_orders, total_cost, sw_net_err, sw_subs,
                   not_sweep_vars>>

\* No replica yet: the REST query answers (strategy.rs 224-225)
SweepReadRest ==
    /\ sw_pc = "while"
    /\ ~(Elapsed \/ total_cost >= max_sweep_cost)
    /\ books[sw_token] = None
    /\ \E ob \in BookPool : PassHead(ob)
    /\ UNCHANGED <<cfg, sw_latest, sw_now_ms, sw_ptb, books, sw_skip, sw_winner, sw_token,
                   sw_timed_out, total_orders, total_cost, sw_net_err, sw_subs,
                   not_sweep_vars>>

\* No replica yet and the REST query fails: break (strategy.rs 226-229)
SweepFetchFailed ==
    /\ sw_pc = "while"
    /\ ~(Elapsed \/ total_cost >= max_sweep_cost)
    /\ books[sw_token] = None
    /\ sw_pc' = "done"
    /\ UNCHANGED <<cfg, sw_latest, sw_now_ms, sw_ptb, books, sw_skip, sw_winner, sw_token,
                   sw_timed_out, total_orders, total_cost, consecutive_empty_passes, filled_any,
                   orderbook, eligible_asks, ask_i, sw_pass, sw_woken, sw_net_err, sw_subs,
                   not_sweep_vars>>

\* wait_for_update returns, by notification or by its 3 s timer; `continue`
\* (strategy.rs 253-254, 332)
SweepWaitReturns ==
    /\ sw_pc = "wait"
    /\ sw_pc' = "while"
    /\ UNCHANGED <<cfg, sw_latest, sw_now_ms, sw_ptb, books, sw_skip, sw_winner, sw_token,
                   sw_timed_out, total_orders, total_cost, consecutive_empty_passes, filled_any,
                   orderbook, eligible_asks, ask_i, sw_pass, sw_woken, sw_net_err, sw_subs,
                   not_sweep_vars>>

\* The for loop ends: out of asks, out of time or at the cost cap
\* (strategy.rs 259-266)
SweepForExit ==
    /\ sw_pc = "for"
    /\ ask_i > Len(eligible_asks) \/ Elapsed \/ total_cost >= max_sweep_cost
    /\ sw_pc' = "pass_end"
    /\ UNCHANGED <<cfg, sw_latest, sw_now_ms, sw_ptb, books, sw_skip, sw_winner, sw_token,
                   sw_timed_out, total_orders, total_cost, consecutive_empty_passes, filled_any,
                   orderbook, eligible_asks, ask_i, sw_pass, sw_woken, sw_net_err, sw_subs,
                   not_sweep_vars>>

ForBody == /\ sw_pc = "for"
           /\ ask_i <= Len(eligible_asks)
           /\ ~Elapsed
           /\ total_cost < max_sweep_cost

\* Fault variant of SweepSkipSmall: the order is sent whatever its size
SweepSubmitsSmall ==
    /\ ForBody
    /\ order_size(eligible_asks[ask_i], total_cost) < 10
    /\ ask_i' = ask_i + 1
    /\ sw_subs' = Append(sw_subs, [token |-> sw_token, price |-> eligible_asks[ask_i].price,
                                   size |-> order_size(eligible_asks[ask_i], total_cost),
                                   ask_size |-> eligible_asks[ask_i].size,
                                   pass |-> sw_pass, after_err |-> sw_net_err,
                                   resp |-> "unfillable", caller |-> "sweep_stale_asks",
                                   slept |-> FALSE])
    /\ UNCHANGED <<cfg, sw_latest, sw_now_ms, sw_ptb, books, sw_pc, sw_skip, sw_winner, sw_token,
                   sw_timed_out, total_orders, total_cost, consecutive_empty_passes, filled_any,
                   orderbook, eligible_asks, sw_pass, sw_woken, sw_net_err,
                   not_sweep_vars>>

\* The ask's order would be below 0.01 shares: continue (strategy.rs 282-285)
SweepSkipSmall ==
    /\ ForBody
    /\ order_size(eligible_asks[ask_i], total_cost) < 10
    /\ ask_i' = ask_i + 1
    /\ UNCHANGED <<cfg, sw_latest, sw_now_ms, sw_ptb, books, sw_pc, sw_skip, sw_winner, sw_token,
                   sw_timed_out, total_orders, total_cost, consecutive_empty_passes, filled_any,
                   orderbook, eligible_asks, sw_pass, sw_woken, sw_net_err, sw_subs,
                   not_sweep_vars>>

\* place_fok_buy and the match on its result (strategy.rs 286-317)
SweepSubmit ==
    /\ ForBody
    /\ LET ask == eligible_asks[ask_i]
           size == order_size(ask, total_cost)
       IN
       /\ size >= 10
       /\ \E resp \in SweepApiResults :
          /\ sw_subs' = Append(sw_subs, [token |-> sw_token, price |-> ask.price, size |-> size,
                                         ask_size |-> ask.size,
                                         pass |-> sw_pass, after_err |-> sw_net_err,
                                         resp |-> resp, caller |-> "sweep_stale_asks",
                                   slept |-> FALSE])
          /\ CASE resp = "filled" ->
                    /\ total_orders' = total_orders + 1
                    /\ total_cost' = total_cost + size * ask.price
                    /\ filled_any' = TRUE
                    /\ sw_pc' = "sleep"
                    /\ UNCHANGED sw_net_err
               [] resp = "unfillable" ->
                    /\ sw_pc' = "sleep"
                    /\ UNCHANGED <<total_orders, total_cost, filled_any, sw_net_err>>
               [] OTHER ->
                    /\ sw_net_err' = TRUE
                    /\ sw_pc' = "pass_end"
                    /\ UNCHANGED <<total_orders, total_cost, filled_any>>
    /\ UNCHANGED <<cfg, sw_latest, sw_now_ms, sw_ptb, books, sw_skip, sw_winner, sw_token,
                   sw_timed_out, consecutive_empty_passes, orderbook, eligible_asks, ask_i,
                   sw_pass, sw_woken, not_sweep_vars>>

\* sleep(sweep_inter_order_delay_ms) returns; next ask (strategy.rs 320).
\* The history notes on the order just sent that its delay has run.
SweepSleep ==
    /\ sw_pc = "sleep"
    /\ ask_i' = ask_i + 1
    /\ sw_pc' = "for"
    /\ sw_subs' = [sw_subs EXCEPT ![Len(sw_subs)].slept = TRUE]
    /\ UNCHANGED <<cfg, sw_latest, sw_now_ms, sw_ptb, books, sw_skip, sw_winner, sw_token,
                   sw_timed_out, total_orders, total_cost, consecutive_empty_passes, filled_any,
                   orderbook, eligible_asks, sw_pass, sw_woken, sw_net_err,
                   not_sweep_vars>>

\* Fault variant of SweepPassEnd: a pass with a fill leaves the counter
SweepPassEndNoReset ==
    /\ sw_pc = "pass_end"
    /\ IF filled_any
       THEN /\ consecutive_empty_passes' = consecutive_empty_passes
            /\ sw_pc' = "while"
       ELSE /\ consecutive_empty_passes' = consecutive_empty_passes + 1
            /\ sw_pc' = IF consecutive_empty_passes + 1 >= 3 THEN "done" ELSE "wait"
    /\ sw_woken' = FALSE
    /\ UNCHANGED <<cfg, sw_latest, sw_now_ms, sw_ptb, books, sw_skip, sw_winner, sw_token,
                   sw_timed_out, total_orders, total_cost, filled_any, orderbook, eligible_asks,
                   ask_i, sw_pass, sw_net_err, sw_subs, not_sweep_vars>>

\* After the for loop (strategy.rs 323-333)
SweepPassEnd ==
    /\ sw_pc = "pass_end"
    /\ IF filled_any
       THEN /\ consecutive_empty_passes' = 0
            /\ sw_pc' = "while"
       ELSE /\ consecutive_empty_passes' = consecutive_empty_passes + 1
            /\ sw_pc' = IF consecutive_empty_passes + 1 >= 3 THEN "done" ELSE "wait"
    /\ sw_woken' = FALSE
    /\ UNCHANGED <<cfg, sw_latest, sw_now_ms, sw_ptb, books, sw_skip, sw_winner, sw_token,
                   sw_timed_out, total_orders, total_cost, filled_any, orderbook, eligible_asks,
                   ask_i, sw_pass, sw_net_err, sw_subs, not_sweep_vars>>

SweepNext ==
    \/ BookUpdate \/ SweepTimeout \/ SweepDetermine \/ SweepWhileExit
    \/ SweepReadMirror \/ SweepReadRest \/ SweepFetchFailed \/ SweepWaitReturns
    \/ SweepForExit \/ SweepSkipSmall \/ SweepSubmit \/ SweepSleep \/ SweepPassEnd

-----------------------------------------------------------------------------
(* orderbook_ws.rs: OrderbookMirror *)

\* Bound: the number of subscribe calls
MaxSubs == 2

OrderBookEntry(price, size) == [price |-> price, size |-> size]
OrderBook(bids, asks) == [bids |-> bids, asks |-> asks]

\* The book updates the stream may carry for an asset
MirrorBooks ==
    { OrderBook(<<OrderBookEntry(400, 1000)>>, <<OrderBookEntry(600, 1000)>>),
      OrderBook(<<>>, <<OrderBookEntry(999, 10000), OrderBookEntry(500, 5000)>>) }

\* The callers of wait_for_update: the sweeps of the symbols
Waiters == symbol_set

\* Fault variant of insert_update: the update's levels are added to the old ones
InsertMerged(map, token_id, book_update) ==
    [map EXCEPT ![token_id] =
        IF map[token_id] = None
        THEN OrderBook(book_update.bids, book_update.asks)
        ELSE OrderBook(map[token_id].bids \o book_update.bids,
                       map[token_id].asks \o book_update.asks)]

\* A fresh OrderBook of the update's levels replaces the entry (orderbook_ws.rs 87-112)
insert_update(map, token_id, book_update) ==
    [map EXCEPT ![token_id] = OrderBook(book_update.bids, book_update.asks)]

\* The last two entries of a history
LastTwo(q) == IF Len(q) <= 2 THEN q ELSE SubSeq(q, Len(q) - 1, Len(q))

\* books.get(token_id).cloned() (orderbook_ws.rs 136-139)
get_orderbook(token_id) == books[token_id]

\* A caller outside wait_for_update; ret is what its last call returned
NotWaiting(ret) ==
    [pc |-> "idle", notified |-> FALSE, elapsed |-> FALSE, applied |-> FALSE, ret |-> ret]

MirrorIdle ==
    /\ mr_tasks = <<>>
    /\ mr_active = {}
    /\ mr_unsub_pc = "idle"
    /\ mr_waiting = [w \in Waiters |-> NotWaiting("none")]
    /\ mr_applied = [t \in Tokens |-> <<>>]

\* OrderbookMirror::new()
MirrorInit == MirrorIdle

\* subscribe(&[m5_up, m5_down]) called by the coordinator of `caller`: one
\* stream, one spawned consumer, its handle pushed to active_tasks
\* (orderbook_ws.rs 44-133)
subscribe(caller) ==
    /\ Len(mr_tasks) < MaxSubs
    /\ mr_tasks' = Append(mr_tasks, [owner |-> caller, tokens |-> Tokens, pc |-> "next",
                                     item |-> None, aborted |-> FALSE])
    /\ mr_active' = mr_active \cup {Len(mr_tasks) + 1}
    /\ UNCHANGED <<books, mr_unsub_pc, mr_waiting, mr_applied, not_mirror_vars>>

\* The symbol's own coordinator subscribes
MirrorSubscribe == subscribe(co_symbol)

\* The coordinator of another symbol subscribes on the shared mirror
\* (strategy.rs 471-482: one Arc<OrderbookMirror> for all symbol loops)
OtherSubscribe == \E other \in symbol_set \ {co_symbol} : subscribe(other)

\* A task that abort() reached stops at its next .await (stream.next()); one
\* that is in the middle of a poll runs on to it.

\* stream.next() yields Ok(book_update) (orderbook_ws.rs 77-85)
ConsumerUpdate ==
    /\ \E i \in DOMAIN mr_tasks :
        /\ mr_tasks[i].pc = "next" /\ ~mr_tasks[i].aborted
        /\ \E t \in mr_tasks[i].tokens, b \in MirrorBooks :
            mr_tasks' = [mr_tasks EXCEPT ![i].pc = "insert",
                                         ![i].item = [asset_id |-> t, bids |-> b.bids,
                                                      asks |-> b.asks]]
    /\ UNCHANGED <<books, mr_active, mr_unsub_pc, mr_waiting, mr_applied, not_mirror_vars>>

\* The write lock is taken, the entry replaced, the lock released
\* (orderbook_ws.rs 87-112); the history notes the update on every caller
\* that is inside wait_for_update
ConsumerInsert ==
    /\ \E i \in DOMAIN mr_tasks :
        /\ mr_tasks[i].pc = "insert"
        /\ books' = insert_update(books, mr_tasks[i].item.asset_id, mr_tasks[i].item)
        /\ mr_applied' = [mr_applied EXCEPT ![mr_tasks[i].item.asset_id] =
                              LastTwo(Append(@, OrderBook(mr_tasks[i].item.bids,
                                                          mr_tasks[i].item.asks)))]
        /\ mr_tasks' = [mr_tasks EXCEPT ![i].pc = "notify", ![i].item = None]
    /\ mr_waiting' = [w \in Waiters |->
                        IF mr_waiting[w].pc = "waiting"
                        THEN [mr_waiting[w] EXCEPT !.applied = TRUE]
                        ELSE mr_waiting[w]]
    /\ UNCHANGED <<mr_active, mr_unsub_pc, not_mirror_vars>>

\* Fault variant of notify_waiters: notify_one, a single waiter is woken
NotifyOne(waiting) ==
    IF \E w \in Waiters : waiting[w].pc = "waiting" /\ ~waiting[w].notified
    THEN LET w == CHOOSE w \in Waiters : waiting[w].pc = "waiting" /\ ~waiting[w].notified
         IN  [waiting EXCEPT ![w].notified = TRUE]
    ELSE waiting

\* Notify::notify_waiters(): every Notified future that exists is woken; no
\* permit is stored for a later one (orderbook_ws.rs 120)
notify_waiters(waiting) ==
    [w \in Waiters |->
        IF waiting[w].pc = "waiting" THEN [waiting[w] EXCEPT !.notified = TRUE]
        ELSE waiting[w]]

\* notify.notify_waiters() after the debug log (orderbook_ws.rs 114-120)
ConsumerNotify ==
    /\ \E i \in DOMAIN mr_tasks :
        /\ mr_tasks[i].pc = "notify"
        /\ mr_tasks' = [mr_tasks EXCEPT ![i].pc = "next"]
    /\ mr_waiting' = notify_waiters(mr_waiting)
    /\ UNCHANGED <<books, mr_active, mr_unsub_pc, mr_applied, not_mirror_vars>>

\* stream.next() yields Err(e) (orderbook_ws.rs 77-78, 122)
ConsumerErrItem ==
    /\ \E i \in DOMAIN mr_tasks :
        /\ mr_tasks[i].pc = "next" /\ ~mr_tasks[i].aborted
        /\ mr_tasks' = [mr_tasks EXCEPT ![i].pc = "err"]
    /\ UNCHANGED <<books, mr_active, mr_unsub_pc, mr_waiting, mr_applied, not_mirror_vars>>

\* The Err arm: a warning, then the loop goes on to stream.next()
\* (orderbook_ws.rs 122-125)
ConsumerErrWarn ==
    /\ \E i \in DOMAIN mr_tasks :
        /\ mr_tasks[i].pc = "err"
        /\ mr_tasks' = [mr_tasks EXCEPT ![i].pc = "next"]
    /\ UNCHANGED <<books, mr_active, mr_unsub_pc, mr_waiting, mr_applied, not_mirror_vars>>

\* stream.next() yields None: the task ends (orderbook_ws.rs 77, 127)
ConsumerStreamEnd ==
    /\ \E i \in DOMAIN mr_tasks :
        /\ mr_tasks[i].pc = "next" /\ ~mr_tasks[i].aborted
        /\ mr_tasks' = [mr_tasks EXCEPT ![i].pc = "ended"]
    /\ UNCHANGED <<books, mr_active, mr_unsub_pc, mr_waiting, mr_applied, not_mirror_vars>>

\* unsubscribe_all, first block: every handle drained and aborted
\* (orderbook_ws.rs 152-157)
unsubscribe_abort(caller) ==
    /\ mr_unsub_pc = "idle"
    /\ mr_tasks # <<>>
    /\ mr_tasks' = [i \in DOMAIN mr_tasks |->
                       IF i \in mr_active THEN [mr_tasks[i] EXCEPT !.aborted = TRUE]
                       ELSE mr_tasks[i]]
    /\ mr_active' = {}
    /\ mr_unsub_pc' = caller
    /\ UNCHANGED <<books, mr_waiting, mr_applied, not_mirror_vars>>

\* The symbol's own coordinator calls unsubscribe_all
UnsubscribeAbort == unsubscribe_abort(co_symbol)

\* The coordinator of another symbol calls unsubscribe_all on the shared
\* mirror (strategy.rs 447-448, 471-482)
OtherUnsubscribeAbort == \E other \in symbol_set \ {co_symbol} : unsubscribe_abort(other)

\* unsubscribe_all, second block: the write lock is taken and the map cleared
\* (orderbook_ws.rs 158-159)
UnsubscribeClear ==
    /\ mr_unsub_pc # "idle"
    /\ books' = [t \in DOMAIN books |-> None]
    /\ mr_unsub_pc' = "idle"
    /\ UNCHANGED <<mr_tasks, mr_active, mr_waiting, mr_applied, not_mirror_vars>>

\* wait_for_update is polled for the first time: select! creates the Notified
\* future and the sleep (orderbook_ws.rs 143-147)
WaitCall ==
    /\ \E w \in Waiters :
        /\ mr_waiting[w].pc = "idle"
        /\ mr_waiting' = [mr_waiting EXCEPT ![w] = [NotWaiting("none") EXCEPT !.pc = "waiting"]]
    /\ UNCHANGED <<books, mr_tasks, mr_active, mr_unsub_pc, mr_applied, not_mirror_vars>>

\* The timeout of a caller's sleep elapses
WaitTimerFires ==
    /\ \E w \in Waiters :
        /\ mr_waiting[w].pc = "waiting" /\ ~mr_waiting[w].elapsed
        /\ mr_waiting' = [mr_waiting EXCEPT ![w].elapsed = TRUE]
    /\ UNCHANGED <<books, mr_tasks, mr_active, mr_unsub_pc, mr_applied, not_mirror_vars>>

\* The caller is polled again: select! takes a branch that is ready, either
\* one when both are (orderbook_ws.rs 144-147)
WaitReturn ==
    /\ \E w \in Waiters, ret \in {"true", "false"} :
        /\ mr_waiting[w].pc = "waiting"
        /\ ret = "true" => mr_waiting[w].notified
        /\ ret = "false" => mr_waiting[w].elapsed
        /\ mr_waiting' = [mr_waiting EXCEPT ![w] = NotWaiting(ret)]
    /\ UNCHANGED <<books, mr_tasks, mr_active, mr_unsub_pc, mr_applied, not_mirror_vars>>

MirrorNext ==
    \/ MirrorSubscribe \/ ConsumerUpdate \/ ConsumerInsert \/ ConsumerNotify
    \/ ConsumerErrItem \/ ConsumerErrWarn
    \/ ConsumerStreamEnd \/ UnsubscribeAbort \/ UnsubscribeClear

\* The mirror shared by the coordinators of two symbols
SharedNext ==
    \/ MirrorSubscribe \/ OtherSubscribe \/ ConsumerUpdate \/ ConsumerInsert
    \/ ConsumerNotify \/ UnsubscribeAbort \/ OtherUnsubscribeAbort \/ UnsubscribeClear

\* The consumer tasks and the callers of wait_for_update
WaitNext ==
    \/ MirrorSubscribe \/ ConsumerUpdate \/ ConsumerInsert \/ ConsumerNotify
    \/ WaitCall \/ WaitTimerFires \/ WaitReturn

-----------------------------------------------------------------------------
(* strategy.rs: run_symbol_loop, the coordinator of one symbol *)

\* Bound: the loop iterations of run_symbol_loop
MaxRounds == 2

\* poll_until_5m_resolved (strategy.rs 347-349)
INITIAL_DELAY_SECS == 60
POLL_INTERVAL_SECS == 45
MAX_WAIT_SECS == 600

\* Polls after which a market resolves in time
ResolvedAfterPolls == {0, 1}

\* Wall-clock instants at which the loop may start
CoordStarts == {0, MARKET_5M_DURATION_SECS \div 2}
\* What parse_price_to_beat_from_question finds in the market's question:
\* nothing, or the threshold of "above $97,500" (discovery.rs 60-92, 125)
QuestionThresholds == {None, [some |-> 97500 * 1000]}

\* Values of the feed's samples while the loop runs
CoordFeedValues == {100000, 100010}

\* current_5m_period_start() at wall-clock instant now (discovery.rs 11-26, 34-36)
current_5m_period_start(now) == period_start_et_unix_for_timestamp(now, 5)

\* Fault variant of sleep_until_close: no sleep
NoSleepUntilClose(period_5, now) == now

\* sleep(remaining) if remaining > 0 (strategy.rs 62-65, 78-81, 100-104)
sleep_until_close(period_5, now) ==
    LET remaining == (period_5 + MARKET_5M_DURATION_SECS) - now
    IN  IF remaining > 0 THEN now + remaining ELSE now

\* Fault variant of next_statement: the sweep before the wait for the close
NextStatementSweepBeforeClose(pc) ==
    CASE pc = "subscribe"   -> "warm"
      [] pc = "warm"        -> "paper"
      [] pc = "paper"       -> "sweep_check"
      [] pc = "sweep"       -> "unsubscribe"
      [] pc = "unsubscribe" -> "wait_close"
      [] pc = "wait_close"  -> "poll"
      [] pc = "pause"       -> "discover"

\* The statements of the loop body in program order (strategy.rs 408-452)
next_statement(pc) ==
    CASE pc = "subscribe"   -> "warm"
      [] pc = "warm"        -> "wait_close"
      [] pc = "wait_close"  -> "paper"
      [] pc = "paper"       -> "sweep_check"
      [] pc = "sweep"       -> "unsubscribe"
      [] pc = "unsubscribe" -> "poll"
      [] pc = "pause"       -> "discover"

CoordIdle ==
    /\ co_symbol = "btc"
    /\ co_cfg = [sweep_enabled |-> FALSE, simulation_mode |-> FALSE]
    /\ co_pc = "idle"
    /\ co_question_ptb = None
    /\ co_skipped = {}
    /\ co_now = 0
    /\ co_round = 0
    /\ co_period = None
    /\ co_cid = None
    /\ co_ptb = None
    /\ co_data = None
    /\ co_poll_started = 0

\* run() has spawned run_symbol_loop for the symbol (strategy.rs 470-485)
CoordInit ==
    /\ co_symbol \in symbol_set
    /\ co_cfg \in [sweep_enabled : BOOLEAN, simulation_mode : BOOLEAN]
    /\ co_pc = "discover"
    /\ co_question_ptb = None
    /\ co_skipped = {}
    /\ co_now \in CoordStarts
    /\ co_round = 1
    /\ co_period = None
    /\ co_cid = None
    /\ co_ptb = None
    /\ co_data = None
    /\ co_poll_started = 0

\* The feed task handles a sample of the symbol, stamped with the current
\* instant; it is interleaved before the statements that read the caches
CoordFeedSample ==
    /\ feed_conn = "up"
    /\ co_pc \in {"discover", "sweep_check"}
    /\ \E sym \in PayloadSymbols, value \in CoordFeedValues :
        /\ payload_symbol_to_key(sym) = co_symbol
        /\ latest_prices[co_symbol] # [value |-> value, ts |-> co_now * 1000]
        /\ FeedSampleAt(sym, value, co_now * 1000)
    /\ UNCHANGED <<feed_conn, not_feed_vars>>

\* wait_for_5m_market_and_price: period_5 and get_5m_market, which answers
\* Some(cid) or None, never Err (strategy.rs 57-60, discovery.rs 116-130)
CoordGetMarket ==
    /\ co_pc = "discover"
    /\ co_round <= MaxRounds
    /\ LET period_5 == current_5m_period_start(co_now) IN
       /\ co_period' = Some(period_5)
       /\ \E found \in BOOLEAN, parsed \in QuestionThresholds :
            IF found
            THEN /\ co_cid' = Some(build_5m_slug(co_symbol, period_5))
                 /\ co_question_ptb' = parsed
                 /\ co_pc' = "price"
            ELSE /\ co_cid' = None
                 /\ co_question_ptb' = None
                 /\ parsed = None
                 /\ co_pc' = "skip_sleep"
    /\ UNCHANGED <<co_symbol, co_cfg, co_skipped, co_now, co_round, co_ptb, co_data, co_poll_started,
                   feed_vars, exec_vars, sweep_vars, disc_vars, mirror_vars>>

\* Fault variant of CoordReadPrice: the price captured for the latest period
\* the cache holds is taken, whichever period that is
CoordReadPriceLatestCaptured ==
    /\ co_pc = "price"
    /\ IF DOMAIN price_cache_5[co_symbol] # {}
       THEN LET latest_period == CHOOSE q \in DOMAIN price_cache_5[co_symbol] :
                                    \A r \in DOMAIN price_cache_5[co_symbol] : r <= q IN
            /\ co_ptb' = Some(price_cache_5[co_symbol][latest_period])
            /\ co_pc' = "tokens"
       ELSE /\ co_ptb' = None
            /\ co_pc' = "skip_sleep"
    /\ UNCHANGED <<co_symbol, co_cfg, co_skipped, co_question_ptb, co_now, co_round, co_period, co_cid, co_data,
                   co_poll_started, feed_vars, exec_vars, sweep_vars, disc_vars, mirror_vars>>

\* The price-to-beat is read from price_cache_5 (strategy.rs 71-84)
CoordReadPrice ==
    /\ co_pc = "price"
    /\ IF co_period.some \in DOMAIN price_cache_5[co_symbol]
       THEN /\ co_ptb' = Some(price_cache_5[co_symbol][co_period.some])
            /\ co_pc' = "tokens"
       ELSE /\ co_ptb' = None
            /\ co_pc' = "skip_sleep"
    /\ UNCHANGED <<co_symbol, co_cfg, co_skipped, co_question_ptb, co_now, co_round, co_period, co_cid, co_data,
                   co_poll_started, feed_vars, exec_vars, sweep_vars, disc_vars, mirror_vars>>

\* get_market_tokens(m5_cid): Ok, the function returns; Err, `?` returns it
\* from the function and from run_symbol_loop (strategy.rs 85-88, 409-410)
CoordGetTokens ==
    /\ co_pc = "tokens"
    /\ \E ok \in BOOLEAN :
         IF ok
         THEN /\ co_data' = [m5_cid |-> co_cid.some, m5_up |-> m5_up, m5_down |-> m5_down,
                             tokens_of |-> co_cid.some, period_5 |-> co_period.some,
                             price_to_beat |-> co_ptb.some, round |-> co_round]
              /\ co_pc' = "subscribe"
         ELSE /\ co_data' = None
              /\ co_pc' = "failed"
    /\ UNCHANGED <<co_symbol, co_cfg, co_skipped, co_question_ptb, co_now, co_round, co_period, co_cid, co_ptb,
                   co_poll_started, feed_vars, exec_vars, sweep_vars, disc_vars, mirror_vars>>

\* Fault variant of CoordSkipSleep: `continue` without the sleep
CoordSkipRetriesAtOnce ==
    /\ co_pc = "skip_sleep"
    /\ co_skipped' = co_skipped \cup {co_period.some}
    /\ co_pc' = "discover"
    /\ UNCHANGED <<co_symbol, co_cfg, co_question_ptb, co_now, co_round, co_period, co_cid,
                   co_ptb, co_data, co_poll_started,
                   feed_vars, exec_vars, sweep_vars, disc_vars, mirror_vars>>

\* No market or no price-to-beat: sleep to the period's end, continue
\* (strategy.rs 60-67, 76-83)
CoordSkipSleep ==
    /\ co_pc = "skip_sleep"
    /\ co_now' = sleep_until_close(co_period.some, co_now)
    /\ co_skipped' = co_skipped \cup {co_period.some}
    /\ co_pc' = "discover"
    /\ UNCHANGED <<co_symbol, co_cfg, co_question_ptb, co_round, co_period, co_cid, co_ptb,
                   co_data, co_poll_started,
                   feed_vars, exec_vars, sweep_vars, disc_vars, mirror_vars>>

\* orderbook_mirror.subscribe(&[&m5_up, &m5_down]); an Err is logged
\* (strategy.rs 412-415)
CoordSubscribe ==
    /\ co_pc = "subscribe"
    /\ \E ok \in BOOLEAN :
         IF ok
         THEN /\ mr_tasks' = Append(mr_tasks, [owner |-> co_symbol,
                                               tokens |-> {co_data.m5_up, co_data.m5_down},
                                               pc |-> "next", item |-> None, aborted |-> FALSE])
              /\ mr_active' = mr_active \cup {Len(mr_tasks) + 1}
         ELSE UNCHANGED <<mr_tasks, mr_active>>
    /\ co_pc' = next_statement(co_pc)
    /\ UNCHANGED <<co_symbol, co_cfg, co_skipped, co_question_ptb, co_now, co_round, co_period, co_cid, co_ptb, co_data,
                   co_poll_started, mr_unsub_pc, mr_waiting, mr_applied,
                   feed_vars, exec_vars, sweep_vars, disc_vars>>

\* warm_order_cache for both tokens; an Err is logged (strategy.rs 417-422)
CoordWarm ==
    /\ co_pc = "warm"
    /\ co_pc' = next_statement(co_pc)
    /\ UNCHANGED <<co_symbol, co_cfg, co_skipped, co_question_ptb, co_now, co_round, co_period, co_cid, co_ptb, co_data,
                   co_poll_started, feed_vars, exec_vars, sweep_vars, disc_vars, mirror_vars>>

\* run_5m_round: sleep to the period's end (strategy.rs 95-108, 424-429)
CoordWaitClose ==
    /\ co_pc = "wait_close"
    /\ co_now' = sleep_until_close(co_data.period_5, co_now)
    /\ co_pc' = next_statement(co_pc)
    /\ UNCHANGED <<co_symbol, co_cfg, co_skipped, co_question_ptb, co_round, co_period, co_cid, co_ptb, co_data,
                   co_poll_started, feed_vars, exec_vars, sweep_vars, disc_vars, mirror_vars>>

\* paper_trader.log: observation only (strategy.rs 431-435)
CoordPaperLog ==
    /\ co_pc = "paper"
    /\ co_pc' = next_statement(co_pc)
    /\ UNCHANGED <<co_symbol, co_cfg, co_skipped, co_question_ptb, co_now, co_round, co_period, co_cid, co_ptb, co_data,
                   co_poll_started, feed_vars, exec_vars, sweep_vars, disc_vars, mirror_vars>>

\* sweep_enabled: sweep_stale_asks(symbol, price_to_beat, m5_up, m5_down) is
\* entered (strategy.rs 437-445, 111-121)
CoordSweepCall ==
    /\ co_pc = "sweep_check"
    /\ co_cfg.sweep_enabled
    /\ co_pc' = "sweep"
    /\ cfg' = [sweep_min_margin_pct |-> 1, simulation_mode |-> co_cfg.simulation_mode]
    /\ sw_latest' = latest_prices[co_symbol]
    /\ sw_now_ms' = co_now * 1000
    /\ sw_ptb' = co_data.price_to_beat
    /\ sw_pc' = "start"
    /\ sw_skip' = ""
    /\ sw_winner' = ""
    /\ sw_token' = ""
    /\ sw_timed_out' = FALSE
    /\ total_orders' = 0
    /\ total_cost' = 0
    /\ consecutive_empty_passes' = 0
    /\ filled_any' = FALSE
    /\ orderbook' = None
    /\ eligible_asks' = <<>>
    /\ ask_i' = 1
    /\ sw_pass' = 0
    /\ sw_woken' = FALSE
    /\ sw_net_err' = FALSE
    /\ sw_subs' = <<>>
    /\ UNCHANGED <<co_symbol, co_cfg, co_skipped, co_question_ptb, co_now, co_round, co_period, co_cid, co_ptb, co_data,
                   co_poll_started, books, feed_vars, exec_vars, disc_vars, mirror_vars>>

\* sweep_enabled is false: the sweep is left out (strategy.rs 438)
CoordSweepSkip ==
    /\ co_pc = "sweep_check"
    /\ ~co_cfg.sweep_enabled
    /\ co_pc' = next_statement("sweep")
    /\ UNCHANGED <<co_symbol, co_cfg, co_skipped, co_question_ptb, co_now, co_round, co_period, co_cid, co_ptb, co_data,
                   co_poll_started, feed_vars, exec_vars, sweep_vars, disc_vars, mirror_vars>>

\* sweep_stale_asks has returned and its locals are dropped (strategy.rs 439-444)
CoordSweepReturn ==
    /\ co_pc = "sweep"
    /\ sw_pc = "done"
    /\ co_now' = co_now + (IF sw_timed_out THEN sweep_timeout_secs ELSE 0)
    /\ co_pc' = next_statement(co_pc)
    /\ cfg' = [sweep_min_margin_pct |-> 1, simulation_mode |-> FALSE]
    /\ sw_latest' = None
    /\ sw_now_ms' = SweepNowMs
    /\ sw_ptb' = 0
    /\ sw_pc' = "done"
    /\ sw_skip' = ""
    /\ sw_winner' = ""
    /\ sw_token' = ""
    /\ sw_timed_out' = FALSE
    /\ total_orders' = 0
    /\ total_cost' = 0
    /\ consecutive_empty_passes' = 0
    /\ filled_any' = FALSE
    /\ orderbook' = None
    /\ eligible_asks' = <<>>
    /\ ask_i' = 1
    /\ sw_pass' = 0
    /\ sw_woken' = FALSE
    /\ sw_net_err' = FALSE
    /\ sw_subs' = <<>>
    /\ UNCHANGED <<co_symbol, co_cfg, co_skipped, co_question_ptb, co_round, co_period, co_cid, co_ptb, co_data,
                   co_poll_started, books, feed_vars, exec_vars, disc_vars, mirror_vars>>

\* orderbook_mirror.unsubscribe_all() (strategy.rs 447-448, orderbook_ws.rs 151-160)
CoordUnsubscribe ==
    /\ co_pc = "unsubscribe"
    /\ mr_tasks' = [i \in DOMAIN mr_tasks |->
                       IF i \in mr_active THEN [mr_tasks[i] EXCEPT !.aborted = TRUE]
                       ELSE mr_tasks[i]]
    /\ mr_active' = {}
    /\ books' = [t \in DOMAIN books |-> None]
    /\ co_pc' = next_statement(co_pc)
    /\ UNCHANGED <<co_symbol, co_cfg, co_skipped, co_question_ptb, co_now, co_round, co_period, co_cid, co_ptb, co_data,
                   co_poll_started, mr_unsub_pc, mr_waiting, mr_applied,
                   cfg, sw_latest, sw_now_ms, sw_ptb, sw_pc, sw_skip, sw_winner, sw_token,
                   sw_timed_out, total_orders, total_cost, consecutive_empty_passes,
                   filled_any, orderbook, eligible_asks, ask_i, sw_pass, sw_woken,
                   sw_net_err, sw_subs, feed_vars, exec_vars, disc_vars>>

\* poll_until_5m_resolved: the initial delay, then `started` is taken
\* (strategy.rs 351-353)
CoordPollStart ==
    /\ co_pc = "poll"
    /\ co_now' = co_now + INITIAL_DELAY_SECS
    /\ co_poll_started' = co_now + INITIAL_DELAY_SECS
    /\ co_pc' = "poll_loop"
    /\ UNCHANGED <<co_symbol, co_cfg, co_skipped, co_question_ptb, co_round, co_period, co_cid, co_ptb, co_data,
                   feed_vars, exec_vars, sweep_vars, disc_vars, mirror_vars>>

\* started.elapsed().as_secs()
poll_elapsed == co_now - co_poll_started

\* The maximum wait has elapsed at the head of the loop: None
\* (strategy.rs 355-358)
CoordPollTimeout ==
    /\ co_pc = "poll_loop"
    /\ poll_elapsed >= MAX_WAIT_SECS
    /\ co_pc' = "pause"
    /\ UNCHANGED <<co_symbol, co_cfg, co_skipped, co_question_ptb, co_round, co_period, co_cid, co_ptb, co_data,
                   co_now, co_poll_started,
                   feed_vars, exec_vars, sweep_vars, disc_vars, mirror_vars>>

\* Fault variant of CoordPollSleep: the next poll follows at once
CoordPollNoSleep ==
    /\ co_pc = "poll_loop"
    /\ poll_elapsed < MAX_WAIT_SECS
    /\ co_pc' = "poll_loop"
    /\ UNCHANGED <<co_symbol, co_cfg, co_skipped, co_question_ptb, co_round, co_period, co_cid, co_ptb, co_data,
                   co_now, co_poll_started,
                   feed_vars, exec_vars, sweep_vars, disc_vars, mirror_vars>>

\* get_market fails, or the market is not closed with a winner: sleep for the
\* poll interval and go round (strategy.rs 359-366, 378-382)
CoordPollSleep ==
    /\ co_pc = "poll_loop"
    /\ poll_elapsed < MAX_WAIT_SECS
    /\ co_now' = co_now + POLL_INTERVAL_SECS
    /\ UNCHANGED <<co_symbol, co_cfg, co_skipped, co_question_ptb, co_round, co_period, co_cid, co_ptb, co_data,
                   co_pc, co_poll_started,
                   feed_vars, exec_vars, sweep_vars, disc_vars, mirror_vars>>

\* get_market shows the market closed with a winner flagged: Some(winner)
\* (strategy.rs 359, 367-381)
CoordPollResolved ==
    /\ co_pc = "poll_loop"
    /\ poll_elapsed < MAX_WAIT_SECS
    /\ poll_elapsed \div POLL_INTERVAL_SECS \in ResolvedAfterPolls
    /\ co_pc' = "pause"
    /\ UNCHANGED <<co_symbol, co_cfg, co_skipped, co_question_ptb, co_round, co_period, co_cid, co_ptb, co_data,
                   co_now, co_poll_started,
                   feed_vars, exec_vars, sweep_vars, disc_vars, mirror_vars>>

\* sleep(5 s), then the next iteration (strategy.rs 451, 408)
CoordPause ==
    /\ co_pc = "pause"
    /\ co_now' = co_now + 5
    /\ co_round' = co_round + 1
    /\ co_question_ptb' = None
    /\ co_period' = None
    /\ co_cid' = None
    /\ co_ptb' = None
    /\ co_data' = None
    /\ co_pc' = next_statement(co_pc)
    /\ UNCHANGED <<co_symbol, co_cfg, co_skipped, co_poll_started,
                   feed_vars, exec_vars, sweep_vars, disc_vars, mirror_vars>>

CoordNext ==
    \/ CoordFeedSample \/ CoordGetMarket \/ CoordReadPrice \/ CoordGetTokens
    \/ CoordSkipSleep \/ CoordSubscribe \/ CoordWarm \/ CoordWaitClose \/ CoordPaperLog
    \/ CoordSweepCall \/ CoordSweepSkip \/ CoordSweepReturn \/ CoordUnsubscribe
    \/ CoordPollStart \/ CoordPollTimeout \/ CoordPollSleep \/ CoordPollResolved
    \/ CoordPause

-----------------------------------------------------------------------------
(* Specifications *)

Init == FeedIdle /\ ExecIdle /\ SweepInit /\ DiscIdle /\ MirrorIdle /\ CoordIdle
Next == SweepNext
Spec == Init /\ [][Next]_vars

InitFeed == FeedInit /\ ExecIdle /\ SweepIdle /\ DiscIdle /\ MirrorIdle /\ CoordIdle
NextFeed == FeedNext
SpecFeed == InitFeed /\ [][NextFeed]_vars
\* The supervisor's sleep ends: tokio::time::sleep(5 s) always completes
SpecFeedFair == SpecFeed /\ WF_vars(FeedReconnect)

InitExec == FeedIdle /\ ExecInit /\ SweepIdle /\ DiscIdle /\ MirrorIdle /\ CoordIdle
NextExec == ExecNext
SpecExec == InitExec /\ [][NextExec]_vars

InitDisc == FeedIdle /\ ExecIdle /\ SweepIdle /\ DiscInit /\ MirrorIdle /\ CoordIdle
NextDisc == DiscNext
SpecDisc == InitDisc /\ [][NextDisc]_vars

InitMirror == FeedIdle /\ ExecIdle /\ SweepIdle /\ DiscIdle /\ MirrorInit /\ CoordIdle
NextMirror == MirrorNext
SpecMirror == InitMirror /\ [][NextMirror]_vars

SpecWait == InitMirror /\ [][WaitNext]_vars

SpecShared == InitMirror /\ [][SharedNext]_vars

\* The coordinator with the feed task and with the sweep it calls; the mirror
\* receives no update, so the sweep reads its books by REST
InitCoord == FeedInit /\ ExecIdle /\ SweepIdle /\ DiscIdle /\ MirrorInit /\ CoordInit
NextCoord ==
    \/ CoordNext
    \/ SweepTimeout \/ SweepDetermine \/ SweepWhileExit \/ SweepReadRest \/ SweepFetchFailed
    \/ SweepWaitReturns \/ SweepForExit \/ SweepSkipSmall \/ SweepSubmit \/ SweepSleep
    \/ SweepPassEnd
SpecCoord == InitCoord /\ [][NextCoord]_vars

\* The steps of the sweep and of the resolution poll that end when a call or a
\* sleep returns, whatever the call answers; that the market gets resolved
\* (CoordPollResolved) and that the sweep's clock passes its timeout are not
\* among them
CoordCallReturns ==
    \/ CoordSweepReturn \/ CoordPollStart \/ CoordPollTimeout \/ CoordPollSleep
    \/ SweepDetermine \/ SweepWhileExit \/ SweepReadRest \/ SweepFetchFailed
    \/ SweepWaitReturns \/ SweepForExit \/ SweepSkipSmall \/ SweepSubmit \/ SweepSleep
    \/ SweepPassEnd

\* Each of these steps changes the position or the clock of the coordinator
\* or of its sweep
coord_progress == <<co_pc, co_now, sw_pc, sw_pass, ask_i>>

\* One symbol's loop, started at a period boundary, under every configuration
InitCoordFair == InitCoord /\ co_symbol = "btc" /\ co_now = 0

\* The loop's first iteration, up to the pause that ends it
NextCoordFair == co_round = 1 /\ NextCoord

\* Every external call and every sleep of the sweep and of the poll returns
SpecCoordFair ==
    InitCoordFair /\ [][NextCoordFair]_vars /\ WF_coord_progress(CoordCallReturns)

-----------------------------------------------------------------------------
(* Properties *)

Range(q) == {q[i] : i \in DOMAIN q}
Count(q, x) == Cardinality({i \in DOMAIN q : q[i] = x})

RECURSIVE SumFilled(_)
SumFilled(results) ==
    IF results = <<>> THEN 0
    ELSE LET r == Head(results)
         IN  (IF r.status = "Filled" THEN r.filled_size * r.filled_price ELSE 0)
             + SumFilled(Tail(results))

RECURSIVE SumFilledSubs(_)
SumFilledSubs(subs) ==
    IF subs = <<>> THEN 0
    ELSE LET r == Head(subs)
         IN  (IF r.resp = "filled" THEN r.size * r.price ELSE 0) + SumFilledSubs(Tail(subs))

C2_BatchCostCapped ==
    /\ ex_total_cost <= max_batch_cost
    /\ SumFilled(ex_results) <= max_batch_cost

\* C2 witness: a batch that filled an order cut down to the remaining budget
\* and ended exactly at max_batch_cost.
C2_Witness ==
    /\ ex_pc = "done"
    /\ ex_total_cost = max_batch_cost
    /\ \E i \in DOMAIN ex_results :
        /\ ex_results[i].status = "Filled"
        /\ ex_results[i].filled_size < ex_results[i].intent.size

\* C3: a NetworkError result ends the batch: it is the last result, the loop is
\* over, and no later intent reached place_fok_buy.
C3_NetworkErrorEndsBatch ==
    \A i \in DOMAIN ex_results :
        ex_results[i].status = "NetworkError" =>
            /\ i = Len(ex_results)
            /\ ex_pc = "done"
            /\ ex_idx = ex_results[i].idx + 1
            /\ \A c \in Range(ex_calls) : c.idx <= ex_results[i].idx

\* C3 witness: the first intent ended in NetworkError with nothing spent and two
\* valid intents still to come.
C3_Witness ==
    /\ Len(ex_results) = 1
    /\ ex_results[1].status = "NetworkError"
    /\ Len(ex_intents) = 3
    /\ ~validate(ex_intents[2], ex_total_cost)
    /\ ~validate(ex_intents[3], ex_total_cost)

\* C4: once place_fok_buy failed with an ambiguous error in a sweep, no further
\* order is submitted in that sweep.
C4_NoSubmitAfterNetworkError ==
    \A i \in DOMAIN sw_subs : ~sw_subs[i].after_err

\* C5: in every state of a sweep the accumulated cost of the filled orders is
\* at most max_sweep_cost.
C5_SweepCostCapped ==
    /\ total_cost <= max_sweep_cost
    /\ SumFilledSubs(sw_subs) = total_cost

\* C5 witness: two fills, the second cut down to the remaining budget, bring
\* the sweep to exactly max_sweep_cost.
C5_Witness ==
    /\ total_cost = max_sweep_cost
    /\ Len(sw_subs) = 2
    /\ \E a \in Range(orderbook.asks) :
        a.price = sw_subs[2].price /\ sw_subs[2].size < a.size

\* C6: every place_fok_buy call of the sweep is a call that execute_live made
\* for an intent OrderExecutor validated and capped.
C6_SubmitsGoThroughExecutor ==
    \A i \in DOMAIN sw_subs :
        \E j \in DOMAIN ex_calls :
            /\ ex_calls[j].token_id = sw_subs[i].token
            /\ ex_calls[j].price = sw_subs[i].price
            /\ ex_calls[j].size = sw_subs[i].size

\* C7: when the latest price equals the price-to-beat the sweep submits no
\* order, whatever sweep_min_margin_pct is.
C7_TieNoOrder ==
    (sw_pc # "start" /\ sw_latest # None /\ sw_latest.value = sw_ptb) =>
        /\ sw_subs = <<>>
        /\ sw_winner = ""
        /\ sw_pc = "done"

\* C7 witness: a tie at margin 0, fresh and sane prices, asks on both books.
C7_Witness ==
    /\ sw_skip = "tie"
    /\ cfg.sweep_min_margin_pct = 0
    /\ ~cfg.simulation_mode
    /\ \A t \in Tokens : books[t] # None /\ eligible(books[t].asks) # <<>>

\* C8: no order when |latest - price_to_beat| < margin_pct * price_to_beat; at
\* or above that margin the margin filter is not what stops the round.
C8_MarginFilter ==
    (sw_pc # "start" /\ sw_latest # None /\ ~is_nan(sw_latest.value)) =>
        LET d == Abs(sw_latest.value - sw_ptb)
            small == d * 10000 < cfg.sweep_min_margin_pct * sw_ptb
        IN  /\ small => sw_subs = <<>> /\ sw_pc = "done"
            /\ ~small => sw_skip # "margin"

\* C8 witness: an order was submitted with the difference exactly at the margin.
C8_Witness ==
    /\ sw_subs # <<>>
    /\ cfg.sweep_min_margin_pct = 1
    /\ Abs(sw_latest.value - sw_ptb) * 10000 = cfg.sweep_min_margin_pct * sw_ptb

\* C9: the winner is Up iff latest > price_to_beat and Down iff latest <
\* price_to_beat, and every order of the sweep is for the winner's token.
C9_WinnerAndToken ==
    IF sw_winner = ""
    THEN sw_subs = <<>>
    ELSE /\ sw_winner = "Up" <=> sw_latest.value > sw_ptb
         /\ sw_winner = "Down" <=> sw_latest.value < sw_ptb
         /\ \A i \in DOMAIN sw_subs :
                sw_subs[i].token = (IF sw_latest.value > sw_ptb THEN m5_up ELSE m5_down)

\* C9 witness: Down won and was bought while the Up book held eligible asks.
C9_Witness ==
    /\ sw_winner = "Down"
    /\ sw_subs # <<>>
    /\ books[m5_up] # None /\ eligible(books[m5_up].asks) # <<>>

C11_PartialFillEndsAtCap ==
    \A k \in DOMAIN sw_subs :
        (sw_subs[k].resp = "filled" /\ sw_subs[k].size < floor_2dp(sw_subs[k].ask_size)) =>
            /\ SumFilledSubs(SubSeq(sw_subs, 1, k)) = max_sweep_cost
            /\ k = Len(sw_subs)

\* C11 (amended): a level that fits the remaining budget is bought whole (in
\* lots of 0.01); a level that does not fit is bought with the remaining budget
\* rounded down to a lot, which leaves the accumulated cost at most
\* max_sweep_cost and less than one lot of that level below it; an order is
\* only sent while the accumulated cost is below max_sweep_cost.
C11_BudgetExhaustion ==
    \A k \in DOMAIN sw_subs :
        LET s == sw_subs[k]
            before == SumFilledSubs(SubSeq(sw_subs, 1, k - 1))
            whole == floor_2dp(s.ask_size)
        IN  /\ before < max_sweep_cost
            /\ s.size % 10 = 0 /\ s.size >= 10
            /\ IF before + whole * s.price <= max_sweep_cost
               THEN s.size = whole
               ELSE /\ s.size < whole
                    /\ before + s.size * s.price <= max_sweep_cost
                    /\ max_sweep_cost - (before + s.size * s.price) < 10 * s.price

\* C11 witness: 714.28 shares of a 1000-share level at 0.700 were bought for
\* 499.996, and the cheaper level was then bought with the 0.004 left over.
C11_Witness ==
    /\ Len(sw_subs) = 2
    /\ sw_subs[1].resp = "filled" /\ sw_subs[2].resp = "filled"
    /\ sw_subs[1].pass = sw_subs[2].pass
    /\ sw_subs[1].size < sw_subs[1].ask_size
    /\ SumFilledSubs(SubSeq(sw_subs, 1, 1)) < max_sweep_cost
    /\ total_cost = max_sweep_cost

DiscCalls == {pd_first, pd_second} \ {None}

C13_PeriodContainsTimestamp ==
    \A a \in DiscCalls :
        /\ a.period_start <= a.ts
        /\ a.ts < a.period_start + MARKET_5M_DURATION_SECS
        /\ a.period_start = AlignedStart(a.period_start)

\* C14: a snapshot get_orderbook returns is exactly the bids and asks of the
\* last update applied for that instrument, and a step that writes one
\* instrument's snapshot leaves every other instrument's snapshot as it was.
C14_ReplicaIsLatestUpdate ==
    /\ [](\A t \in Tokens :
            get_orderbook(t) # None =>
                /\ mr_applied[t] # <<>>
                /\ get_orderbook(t) = mr_applied[t][Len(mr_applied[t])])
    /\ [][\A t \in Tokens :
            (books'[t] # books[t] /\ books'[t] # None) =>
                /\ \E i \in DOMAIN mr_tasks :
                      /\ mr_tasks[i].pc = "insert"
                      /\ mr_tasks[i].item.asset_id = t
                      /\ books'[t].bids = mr_tasks[i].item.bids
                      /\ books'[t].asks = mr_tasks[i].item.asks
                /\ \A u \in Tokens \ {t} : books'[u] = books[u]]_vars

\* C14 witness: the Up snapshot holds its second update, which has no bids and
\* other asks than the first one had, beside a Down snapshot.
C14_Witness ==
    /\ Len(mr_applied[m5_up]) = 2
    /\ mr_applied[m5_up][1] = OrderBook(<<OrderBookEntry(400, 1000)>>, <<OrderBookEntry(600, 1000)>>)
    /\ books[m5_up] = OrderBook(<<>>, <<OrderBookEntry(999, 10000), OrderBookEntry(500, 5000)>>)
    /\ books[m5_down] = OrderBook(<<OrderBookEntry(400, 1000)>>, <<OrderBookEntry(600, 1000)>>)

\* An intent that breaks a validation rule, in the claim's words
InvalidIntent(intent) ==
    \/ ~(f64_gt(intent.price, 0) /\ f64_le(intent.price, max_price))
    \/ ~(f64_gt(intent.size, 0) /\ f64_ge(intent.size, min_size))
    \/ intent.token_id = ""
    \/ intent.side # "Buy"
    \/ intent.order_type # "FOK"

\* C15: an invalid intent, or one that arrives with the budget used up, gets a
\* Rejected result with filled size 0, reaches place_fok_buy never, and leaves
\* total_cost and consecutive_misses as they were.
C15_InvalidIntentRejectedLocally ==
    /\ [](\A i \in DOMAIN ex_results :
            InvalidIntent(ex_results[i].intent) =>
                /\ ex_results[i].status = "Rejected"
                /\ ex_results[i].filled_size = 0
                /\ \A c \in Range(ex_calls) : c.idx # ex_results[i].idx)
    /\ [][(/\ ex_pc = "loop" /\ ex_idx <= Len(ex_intents)
           /\ InvalidIntent(ex_intents[ex_idx]) \/ ex_total_cost >= max_batch_cost) =>
              /\ ex_results' = Append(ex_results, Result(ex_idx, ex_intents[ex_idx], "Rejected", 0, 0))
              /\ ex_total_cost' = ex_total_cost
              /\ ex_misses' = ex_misses
              /\ ex_calls' = ex_calls]_vars

\* C15 witness: a live batch in which an intent of 0.005 shares was rejected
\* between two misses, the miss counter going from 1 to 2.
C15_Witness ==
    /\ ex_live
    /\ Len(ex_results) = 3
    /\ ex_results[1].status = "NotFillable"
    /\ ex_results[2].status = "Rejected" /\ ex_results[2].intent.size < min_size
    /\ ex_results[3].status = "NotFillable"
    /\ ex_misses = 2
    /\ Len(ex_calls) = 2

\* The phase of the round the coordinator is in
Phase ==
    CASE co_pc \in {"discover", "price", "tokens", "skip_sleep", "failed"} -> "DiscoverMarket"
      [] co_pc \in {"subscribe", "warm", "wait_close", "paper", "sweep_check"} -> "WaitClose"
      [] co_pc = "sweep" ->
            IF sw_pc = "start" \/ (sw_pc = "done" /\ sw_pass = 0 /\ sw_skip # "")
            THEN "DetermineWinner" ELSE "Sweep"
      [] co_pc \in {"unsubscribe", "poll", "poll_loop", "pause"} -> "PollResolution"
      [] OTHER -> "Idle"

\* The order of the phases; a round that does not sweep goes on to PollResolution
PhaseOrder ==
    { <<"DiscoverMarket", "WaitClose">>, <<"WaitClose", "DetermineWinner">>,
      <<"DetermineWinner", "Sweep">>, <<"Sweep", "PollResolution">>,
      <<"PollResolution", "DiscoverMarket">>,
      <<"WaitClose", "PollResolution">>,            \* sweep_enabled is false
      <<"DetermineWinner", "PollResolution">> }     \* the round was rejected

C17_CoordinatorNeverStops == co_pc # "failed"

\* C18: whenever the feed task has ended, the supervisor starts a new
\* connection, at any time and any number of times; no change of the
\* connection's state changes the latest-price or the price-to-beat cache.
C18_SupervisorReconnects ==
    /\ [](feed_conn = "down" => <>(feed_conn = "connecting"))
    /\ [][feed_conn' # feed_conn => UNCHANGED <<latest_prices, price_cache_5>>]_vars

\* C18 witness: a new connection is being made after the task ended, and
\* both caches hold what the earlier connection wrote.
C18_Witness ==
    /\ feed_conn = "connecting"
    /\ \E s \in symbol_set : latest_prices[s] # None /\ price_cache_5[s] # EmptyMap

\* C19: the latest-price entry of every tracked symbol is the value and feed
\* timestamp of the last sample handled for that symbol, whether or not the
\* entry it replaced had a later feed timestamp; a step that handles no
\* sample of a symbol leaves that symbol's entry as it was.
C19_LatestIsLastSample ==
    /\ [](\A s \in symbol_set :
            latest_prices[s] = last_sample[s])
    /\ [][\A s \in symbol_set :
            last_sample'[s] = last_sample[s] => latest_prices'[s] = latest_prices[s]]_vars

\* C19 witness: btc's entry is its last sample, stamped with the first
\* instant of period 0, although a sample stamped at the start of the next
\* period was handled before it (and captured that period's price-to-beat);
\* eth holds its own, later sample.
C19_Witness ==
    /\ last_sample["btc"] # None
    /\ last_sample["btc"].ts = 0
    /\ latest_prices["btc"].ts = 0
    /\ MARKET_5M_DURATION_SECS \in DOMAIN price_cache_5["btc"]
    /\ latest_prices["eth"] # None
    /\ latest_prices["eth"].ts > latest_prices["btc"].ts

\* <= 0, below 0.001 or above 1,000,000, in the model's unit of 0.001
OutOfSaneRange(p) == f64_le(p, 0) \/ f64_lt(p, 1) \/ f64_gt(p, 1000000 * 1000)

\* C20 as stated: an order is submitted only when a latest price exists, the
\* latest price and the price-to-beat are within the sane range, and the age
\* of the latest price, now minus its feed timestamp, does not exceed the
\* staleness timeout.
C20_NoOrderWhenAgeExceedsTimeout ==
    sw_subs # <<>> =>
        /\ sw_latest # None
        /\ ~OutOfSaneRange(sw_latest.value)
        /\ ~OutOfSaneRange(sw_ptb)
        /\ sw_now_ms - sw_latest.ts <= sweep_timeout_secs * 1000

\* C20: an order is submitted only when a latest price exists, the latest
\* price and the price-to-beat are within the sane range, and the age of the
\* latest price in whole seconds does not exceed the staleness timeout; a
\* round rejected by one of these guards has submitted no order.
C20_SanityAndStalenessGuards ==
    /\ sw_subs # <<>> =>
        /\ sw_latest # None
        /\ ~OutOfSaneRange(sw_latest.value)
        /\ ~OutOfSaneRange(sw_ptb)
        /\ sw_now_ms - sw_latest.ts < (sweep_timeout_secs + 1) * 1000
    /\ sw_skip \in {"no_price", "sanity_latest", "sanity_ptb", "stale"} =>
        sw_pc = "done" /\ sw_subs = <<>>

\* C20 witness: a round whose prices are sane and far apart was rejected
\* because its latest price was 31 s old.
C20_Witness ==
    /\ sw_pc = "done"
    /\ sw_skip = "stale"
    /\ sw_subs = <<>>
    /\ ~cfg.simulation_mode
    /\ sw_latest.value = 100010
    /\ sw_ptb = 100000
    /\ sw_now_ms - sw_latest.ts = (sweep_timeout_secs + 1) * 1000

\* C21: the k-th result of execute_batch belongs to the k-th intent, every
\* intent the loop has reached has exactly one result, and there are never
\* more results than intents.
C21_ResultsInInputOrder ==
    /\ Len(ex_results) = ex_idx - 1
    /\ Len(ex_results) <= Len(ex_intents)
    /\ \A k \in DOMAIN ex_results :
        /\ ex_results[k].idx = k
        /\ ex_results[k].intent = ex_intents[k]

\* C21 witness: a batch ended before its last intent, with results of two
\* different intents, the first rejected locally and the second submitted.
C21_Witness ==
    /\ ex_pc = "done"
    /\ Len(ex_results) = 2
    /\ Len(ex_intents) > 2
    /\ ex_results[1].intent # ex_results[2].intent
    /\ ex_results[1].status = "Rejected"
    /\ ex_results[2].status = "NetworkError"

\* The cost accumulated by the first n results
RECURSIVE CostOfResults(_, _)
CostOfResults(results, n) ==
    IF n = 0 THEN 0
    ELSE CostOfResults(results, n - 1) + results[n].filled_size * results[n].filled_price

\* s is min(intent.size, remaining budget / price) rounded down to 0.01: a
\* whole number of lots within the intent's size and the remaining budget,
\* and one lot more is not
IsCappedSize(s, intent, cost) ==
    /\ s % 10 = 0
    /\ s <= intent.size
    /\ s * intent.price <= max_batch_cost - cost
    /\ s + 10 > intent.size \/ (s + 10) * intent.price > max_batch_cost - cost

\* C22: the size of every submission, live or paper, is min(intent.size,
\* (max_batch_cost - accumulated cost) / price) rounded down to two decimals;
\* an intent that passes validation and whose capped size is below min_size
\* has a Rejected result and no submission.
C22_SizeCappedToBudget ==
    /\ \A c \in DOMAIN ex_calls :
        /\ IsCappedSize(ex_calls[c].size, ex_intents[ex_calls[c].idx],
                        CostOfResults(ex_results, ex_calls[c].idx - 1))
        /\ ex_calls[c].size >= min_size
    /\ \A k \in DOMAIN ex_results :
        LET cost == CostOfResults(ex_results, k - 1) IN
        /\ ex_results[k].status = "Filled" =>
            /\ IsCappedSize(ex_results[k].filled_size, ex_intents[k], cost)
            /\ ex_results[k].filled_size >= min_size
        /\ (/\ ~validate(ex_intents[k], cost)
            /\ \E s \in 0..(min_size - 1) : IsCappedSize(s, ex_intents[k], cost)) =>
            /\ ex_results[k].status = "Rejected"
            /\ \A c \in DOMAIN ex_calls : ex_calls[c].idx # k

\* C22 witness: a live batch whose first order was cut to 714.28 shares by
\* the budget and whose next intent, valid by itself, was rejected because
\* less than min_size was affordable.
C22_Witness ==
    /\ ex_live
    /\ Len(ex_results) >= 2
    /\ ex_results[1].status = "Filled"
    /\ ex_results[1].filled_size = 714280
    /\ ex_results[1].intent.size = 1000000
    /\ ~validate(ex_intents[2], CostOfResults(ex_results, 1))
    /\ ex_results[2].status = "Rejected"
    /\ Len(ex_calls) = 1

\* C23: a step that pushes a Filled result adds filled_size * filled_price to
\* the accumulated cost and sets the miss counter to 0; one that pushes
\* NotFillable adds 1 to the miss counter and leaves the cost; one that pushes
\* Rejected, locally or from the venue, leaves both.
C23_ClassificationEffects ==
    [][Len(ex_results') = Len(ex_results) + 1 =>
        LET r == ex_results'[Len(ex_results')] IN
        /\ r.status = "Filled" =>
            /\ ex_total_cost' = ex_total_cost + r.filled_size * r.filled_price
            /\ ex_misses' = 0
        /\ r.status = "NotFillable" =>
            /\ ex_misses' = ex_misses + 1
            /\ ex_total_cost' = ex_total_cost
        /\ r.status = "Rejected" =>
            /\ ex_misses' = ex_misses
            /\ ex_total_cost' = ex_total_cost]_vars

\* C23 witness: a miss, then a rejection by the venue that left the counter at
\* 1, then a fill that reset it and was added to the cost.
C23_Witness ==
    /\ Len(ex_results) = 3
    /\ Len(ex_calls) = 3
    /\ ex_results[1].status = "NotFillable"
    /\ ex_results[2].status = "Rejected"
    /\ ex_results[3].status = "Filled"
    /\ ex_misses = 0
    /\ ex_total_cost = ex_results[3].filled_size * ex_results[3].filled_price
    /\ ex_total_cost > 0

C25_PaperModeFillsWithoutCalls ==
    ~ex_live =>
        /\ ex_calls = <<>>
        /\ \A k \in DOMAIN ex_results :
            LET r == ex_results[k]
                cost == CostOfResults(ex_results, k - 1)
                rejected_locally ==
                    \/ validate(ex_intents[k], cost)
                    \/ \E s \in 0..(min_size - 1) : IsCappedSize(s, ex_intents[k], cost)
            IN  /\ r.status \in {"Filled", "Rejected"}
                /\ r.status = "Rejected" <=> rejected_locally
                /\ r.status = "Filled" =>
                    /\ r.filled_price = ex_intents[k].price
                    /\ IsCappedSize(r.filled_size, ex_intents[k], cost)

\* C25 witness: a finished paper batch with a fill at the intent's size, a
\* fill cut by the budget and a local rejection.
C25_Witness ==
    /\ ~ex_live
    /\ ex_pc = "done"
    /\ Len(ex_results) = 3
    /\ ex_results[1].status = "Filled"
    /\ ex_results[1].filled_size = ex_intents[1].size
    /\ ex_results[2].status = "Rejected"
    /\ ex_results[3].status = "Filled"
    /\ ex_results[3].filled_size < ex_intents[3].size

\* C26: every order of the sweep for the period P of the round is submitted
\* at a wall-clock time of at least P + 300 s.
C26_NoOrderBeforeClose ==
    [][Len(sw_subs') > Len(sw_subs) =>
        /\ co_data # None
        /\ co_now >= co_data.period_5 + MARKET_5M_DURATION_SECS
        /\ sw_now_ms >= (co_data.period_5 + MARKET_5M_DURATION_SECS) * 1000]_vars

\* C26 witness: the round discovered period 0, waited for its close, and its
\* sweep, entered at the very second the period closed, has submitted an order.
C26_Witness ==
    /\ co_round = 1
    /\ co_pc = "sweep"
    /\ sw_subs # <<>>
    /\ co_data.period_5 = 0
    /\ co_now = MARKET_5M_DURATION_SECS
    /\ latest_prices[co_symbol].ts = co_now * 1000

\* C27 as stated: when the round reads the price-to-beat and the feed has no
\* capture for the period while the market's question gave a threshold, the
\* round goes on with that threshold as its price-to-beat.
C27_ParsedThresholdIsFallback ==
    [][(/\ co_pc = "price"
        /\ co_period.some \notin DOMAIN price_cache_5[co_symbol]
        /\ co_question_ptb # None)
       => co_pc' = "tokens" /\ co_ptb' = co_question_ptb]_vars

IsSweepSize(s, ask, cost) ==
    /\ s % 10 = 0
    /\ s <= ask.size
    /\ s * ask.price <= max_sweep_cost - cost
    /\ s + 10 > ask.size \/ (s + 10) * ask.price > max_sweep_cost - cost

PassHasFill == \E i \in DOMAIN sw_subs : sw_subs[i].pass = sw_pass /\ sw_subs[i].resp = "filled"

\* C30: the counter of consecutive zero-fill passes goes up by one at the end
\* of a pass without a fill and at a pass that finds no eligible ask, goes to
\* 0 at the end of a pass with a fill, and changes at no other step; when it
\* reaches 3 the sweep is over and no order follows.
C30_ThreeZeroFillPassesEndSweep ==
    /\ [](consecutive_empty_passes <= 3)
    /\ [](consecutive_empty_passes = 3 => sw_pc = "done")
    /\ [][sw_pc = "done" => sw_subs' = sw_subs]_vars
    /\ [][(sw_pc = "pass_end" /\ sw_pc' # "pass_end") =>
            consecutive_empty_passes' =
                (IF PassHasFill THEN 0 ELSE consecutive_empty_passes + 1)]_vars
    /\ [][(sw_pass' = sw_pass + 1 /\ eligible_asks' = <<>>) =>
            consecutive_empty_passes' = consecutive_empty_passes + 1]_vars
    /\ [][consecutive_empty_passes' # consecutive_empty_passes =>
            \/ sw_pc = "pass_end"
            \/ sw_pass' = sw_pass + 1 /\ eligible_asks' = <<>>]_vars

\* C30 witness: a pass whose only order did not fill, then two passes without
\* eligible asks; the third zero-fill pass in a row ended the sweep before its
\* timeout.
C30_Witness ==
    /\ sw_pc = "done"
    /\ consecutive_empty_passes = 3
    /\ sw_pass = 3
    /\ Len(sw_subs) = 1
    /\ sw_subs[1].pass = 1
    /\ sw_subs[1].resp # "filled"
    /\ ~sw_timed_out


\* C31: whenever the sweep sends an order after an earlier one, the inter-order
\* delay that follows the earlier order has run in between.
C31_DelayBetweenSubmissions ==
    [][(Len(sw_subs') > Len(sw_subs) /\ Len(sw_subs) > 0) =>
            sw_subs[Len(sw_subs)].slept]_vars


\* C32: once entered, the sweep ends and the coordinator goes on to
\* unsubscribe; once entered, the resolution poll returns and the coordinator
\* goes on to its pause; the poll never runs past the first check at which the
\* maximum wait has elapsed.
C32_BoundedLoopsTerminate ==
    /\ (co_pc = "sweep") ~> (co_pc = "unsubscribe")
    /\ (co_pc = "poll") ~> (co_pc = "pause")
    /\ [](co_pc = "poll_loop" => poll_elapsed < MAX_WAIT_SECS + POLL_INTERVAL_SECS)

\* C32 witness: the poll has slept through the maximum wait without a
\* resolution, after a sweep that sent an order.
C32_Witness ==
    /\ co_pc = "poll_loop"
    /\ poll_elapsed >= MAX_WAIT_SECS
    /\ co_round = 1


\* C33 as stated: a consumer task that took an error item from its stream ends
\* there: its next step is the end of the task, not another stream.next().
C33_ErrorItemEndsConsumer ==
    [][\A i \in DOMAIN mr_tasks :
            mr_tasks[i].pc = "err" => mr_tasks'[i].pc \in {"err", "ended"}]_vars


\* C34 as stated: once unsubscribe_all has returned and until a later
\* subscribe, get_orderbook returns nothing for every instrument: no consumer
\* it aborted writes into the replica after the clear.
C34_EmptyAfterUnsubscribe ==
    (/\ mr_tasks # <<>>
     /\ mr_unsub_pc = "idle"
     /\ \A i \in DOMAIN mr_tasks : mr_tasks[i].aborted)
    => \A t \in Tokens : get_orderbook(t) = None

\* A step in which caller w leaves wait_for_update
WaitReturns(w) == mr_waiting[w].pc = "waiting" /\ mr_waiting'[w].pc = "idle"

\* A step in which a consumer task calls notify_waiters
NotifyStep ==
    \E i \in DOMAIN mr_tasks : mr_tasks[i].pc = "notify" /\ mr_tasks'[i].pc = "next"

\* C35 as stated: wait_for_update returns true only if an update was applied
\* to the replica between the call and the return, and false only if the
\* timeout elapsed and no update was applied in between; a notification wakes
\* every caller that is waiting.
C35_WaitReturnsWhetherApplied ==
    /\ [][\A w \in Waiters : WaitReturns(w) =>
            /\ mr_waiting'[w].ret = "true" => mr_waiting[w].applied
            /\ mr_waiting'[w].ret = "false" =>
                    mr_waiting[w].elapsed /\ ~mr_waiting[w].applied]_vars
    /\ [][NotifyStep =>
            \A w \in Waiters : mr_waiting[w].pc = "waiting" => mr_waiting'[w].notified]_vars

\* C35, amended: wait_for_update returns true only if a consumer task issued
\* its notification of an applied update between the call and the return, and
\* false only if the timeout elapsed; a notification wakes every caller that
\* is waiting, whichever instrument the update concerns.
C35_WaitReturnsWhetherNotified ==
    /\ [][\A w \in Waiters : WaitReturns(w) =>
            /\ mr_waiting'[w].ret = "true" =>
                    /\ mr_waiting[w].notified
                    /\ \E t \in Tokens : mr_applied[t] # <<>>
            /\ mr_waiting'[w].ret = "false" => mr_waiting[w].elapsed]_vars
    /\ [][NotifyStep =>
            \A w \in Waiters : mr_waiting[w].pc = "waiting" => mr_waiting'[w].notified]_vars
    /\ [][\A w \in Waiters :
            (mr_waiting'[w].notified /\ ~mr_waiting[w].notified) => NotifyStep]_vars

\* C35 witness: both callers were waiting when the only update so far was
\* notified, and both have returned true.
C35_Witness ==
    /\ \A w \in Waiters : mr_waiting[w].ret = "true"
    /\ Len(mr_applied[m5_up]) + Len(mr_applied[m5_down]) = 1

\* C36 as stated: the latest price from which the sweep has determined the
\* winner of its period P is a sample stamped no later than the end of P, and
\* is no sample of the period that follows P.
C36_ClosePriceWithinPeriod ==
    (co_pc = "sweep" /\ sw_winner # "") =>
        LET close_ms == (co_data.period_5 + MARKET_5M_DURATION_SECS) * 1000 IN
        /\ sw_latest.ts <= close_ms
        /\ ~(close_ms <= sw_latest.ts
             /\ sw_latest.ts < close_ms + MARKET_5M_DURATION_SECS * 1000)

\* C36, amended: the latest price from which the sweep has determined the
\* winner of its period P is the last sample the feed handled for the symbol
\* before the sweep was entered; the sweep reads it at or after the end of P,
\* and its stamp is less than sweep_timeout_secs + 1 seconds older than that
\* reading.
C36_ClosePriceIsLatestSample ==
    (co_pc = "sweep" /\ sw_winner # "") =>
        LET close_ms == (co_data.period_5 + MARKET_5M_DURATION_SECS) * 1000 IN
        /\ sw_latest = last_sample[co_symbol]
        /\ sw_now_ms >= close_ms
        /\ sw_now_ms - sw_latest.ts < (sweep_timeout_secs + 1) * 1000

\* C36 witness: the winner of period 0 was decided, and an order sent, from a
\* sample stamped at the first instant of the period that follows.
C36_Witness ==
    /\ co_pc = "sweep"
    /\ sw_winner # ""
    /\ co_data.period_5 = 0
    /\ sw_latest.ts = MARKET_5M_DURATION_SECS * 1000
    /\ sw_subs # <<>>

\* C37 as stated: a consumer task that one symbol's coordinator subscribed
\* and has not yet unsubscribed is aborted by no unsubscribe_all other than
\* that of its own coordinator.
C37_UnsubscribeOnlyOwn ==
    [][\A i \in DOMAIN mr_tasks :
        (i \in mr_active /\ mr_tasks'[i].aborted /\ ~mr_tasks[i].aborted)
            => mr_tasks[i].owner = mr_unsub_pc']_vars

\* The replica of the winning instrument differs from the snapshot the current
\* pass read: an update was applied to it after the read
UpdatedSinceRead == books[sw_token] # None /\ books[sw_token] # orderbook

\* C38 as stated: when the sweep is in wait_for_update and a book update was
\* applied after the pass read the book and before the call, a notification
\* is there to end the wait before its 3-second timer.
C38_NoLostNotification ==
    (sw_pc = "wait" /\ UpdatedSinceRead) => sw_woken

\* C38, amended: a book update applied while the sweep is suspended in
\* wait_for_update notifies that wait, and a wait that begins has no
\* notification from any earlier update.
C38_NotifiedOnlyWhileWaiting ==
    /\ [][(sw_pc = "wait" /\ books' # books) => sw_woken']_vars
    /\ [][(sw_pc # "wait" /\ sw_pc' = "wait") => ~sw_woken']_vars

\* C38 witness: the second pass ended in a wait that an update applied during
\* the wait has notified, after the first pass's wait began without one
\* although the replica had changed since that pass's read.
C38_Witness ==
    /\ sw_pc = "wait"
    /\ sw_woken
    /\ sw_pass = 2
    /\ UpdatedSinceRead

\* C39: from the return of discovery to the end of the round, the condition
\* id, the instrument ids, the period start and the price-to-beat the
\* coordinator carries are those of one period of its symbol, discovered in
\* this round: the period is a period start, the condition id is the one
\* built for (symbol, period), the instruments were fetched for that condition
\* id, the price-to-beat is the one captured for (symbol, period), and the
\* sweep is handed that price-to-beat.
C39_RoundDataOfOnePeriod ==
    co_pc \in {"subscribe", "warm", "wait_close", "paper", "sweep_check", "sweep",
               "unsubscribe", "poll", "poll_loop", "pause"} =>
        /\ co_data # None
        /\ co_data.round = co_round
        /\ co_data.period_5 % MARKET_5M_DURATION_SECS = 0
        /\ co_data.m5_cid = build_5m_slug(co_symbol, co_data.period_5)
        /\ co_data.tokens_of = co_data.m5_cid
        /\ co_data.period_5 \in DOMAIN price_cache_5[co_symbol]
        /\ co_data.price_to_beat = price_cache_5[co_symbol][co_data.period_5]
        /\ co_pc = "sweep" => sw_ptb = co_data.price_to_beat

\* C39 witness: discovery began in period 0, skipped it and returned in the
\* period that began at 300; the round's sweep has submitted an order.
C39_Witness ==
    /\ co_pc = "sweep"
    /\ co_round = 1
    /\ 0 \in co_skipped
    /\ co_data.period_5 = MARKET_5M_DURATION_SECS
    /\ sw_subs # <<>>

\* C40: when sweep_enabled is false or simulation_mode is true, the coordinator
\* makes no place_fok_buy call, in any round and whatever the feed, the books
\* and the venue deliver.
C40_NoOrderWhenSuppressed ==
    (~co_cfg.sweep_enabled \/ co_cfg.simulation_mode) => sw_subs = <<>>

\* C40 witness: in simulation mode the second round's sweep passed every guard,
\* named a winner and returned at the simulation_mode check.
C40_Witness ==
    /\ co_cfg.sweep_enabled
    /\ co_cfg.simulation_mode
    /\ co_round = 2
    /\ co_pc = "sweep"
    /\ sw_pc = "done"
    /\ sw_skip = "simulation"
    /\ sw_winner # ""

====
